---- MODULE Spec2Model ----
(***************************************************************************)
(* A model of the Rune compiler: the phase driver build_with_hooks, the    *)
(* codegen inputs set by update_db_before_codegen, the Path grammar        *)
(* (FromStr / Display), the Runefile Document (de)serialisation, the       *)
(* proc-block dependency resolver of the Cargo.toml generator, the         *)
(* emitters of Cargo.toml and .cargo/config.toml, the cycle detection of   *)
(* the type checker, the name and stage registration of the analyser, the  *)
(* exports of the emitted lib.rs with the guards they construct, and the   *)
(* audio_float_conversion proc block.                                      *)
(*                                                                         *)
(* Strings are modelled as sequences of tokens.  The tokens ".", "/", ":", *)
(* "@", "#" and " " are the single characters they show; every other token *)
(* is a non-empty run of characters of [A-Za-z0-9_-].                      *)
(***************************************************************************)
EXTENDS Integers, Sequences, FiniteSets, TLC

VARIABLES
    \* ---- build_with_hooks (crates/compiler/src/phases.rs)
    pc,          \* position of the driver inside build_with_hooks
    parseOk,     \* input: does parse(ctx.runefile) return Ok?
    world,       \* legion World: the set of entities
    res,         \* legion Resources
    db,          \* the salsa Database
    trace,       \* the hooks and phases executed so far, in order
    halted,      \* the hook that returned Halt, or "none"
    ret,         \* Option: the (world, res) returned by build_with_hooks
    \* ---- Path::from_str / Display (syntax/src/yaml.rs)
    pathStep,    \* "input" | "parsed" | "rendered" | "reparsed"
    pathInput,   \* the string handed to Path::from_str
    pathParsed,  \* Option: the Result<Path, PathParseError> of the first parse
    pathText,    \* Option: p.to_string()
    pathAgain,   \* Option: the Result of parsing pathText
    \* ---- Document::parse / serde_yaml::to_string (syntax/src/yaml.rs)
    docStep,     \* "input" | "parsed" | "serialized" | "reparsed"
    docYaml,     \* the YAML document handed to Document::parse
    docParsed,   \* Option: the Result<Document, Error> of the first parse
    docText,     \* Option: the YAML document serde_yaml::to_string writes
    docAgain,    \* Option: the Result of parsing docText
    \* ---- proc_block_dependency (compiler/src/codegen/generate_cargo_toml.rs)
    depStep,         \* "input" | "resolved"
    CORE_VERSION,        \* hotg_rune_core::VERSION
    PROC_BLOCK_VERSION,  \* hotg_rune_proc_blocks::VERSION
    current_dir,     \* BuildContext.current_directory
    depPath,         \* the proc block's Path
    depResult,       \* Option: the DependencyDetail of the proc block
    \* ---- the codegen emitters (compiler/src/codegen/generate_cargo_*.rs)
    proc_blocks,     \* the ProcBlock components of the world, in query order
    ctx_name,        \* BuildContext.name
    optimized,       \* BuildContext.optimized
    rune_repo_dir,   \* Option: FeatureFlags.rune_repo_dir
    cargoToml,       \* Option: the File pushed by generate_cargo_toml::run
    cargoConfig,     \* Option: the File pushed by generate_cargo_config::run
    \* ---- cycle detection of the type checker
    cyStep,          \* "input" | "checked"
    cyInputs,        \* the Inputs component of every stage: its upstream stages
    cyDiags,         \* the Diagnostics resource
    \* ---- Context::register_names / register_stages (syntax/src/yaml.rs)
    anStep,          \* "input" | "named" | "staged" | "aborted"
    anPanic,         \* Option: the function that panicked and its message
    anPipeline,      \* the Document's pipeline: stage name -> Stage
    anOrder,         \* the order in which the HashMap yields its entries
    anCtx,           \* the analyser's Context
    \* ---- the emitted lib.rs (codegen/src/code.rs) and its guards
    PIPELINE,        \* static mut PIPELINE: Option<Box<dyn FnMut()>>
    logger,          \* Option: the global logger of the log crate
    rtTrace,         \* the calls the host made to the exports, with outcomes
    \* ---- AudioFloatConversion (proc-blocks/audio_float_conversion)
    afStep,          \* "input" | "returned" | "panicked"
    afInput,         \* the elements of the input Tensor<i16>
    afOutput         \* Option: the elements of the Tensor<f32> returned

buildVars == <<pc, parseOk, world, res, db, trace, halted, ret>>
pathVars == <<pathStep, pathInput, pathParsed, pathText, pathAgain>>
docVars == <<docStep, docYaml, docParsed, docText, docAgain>>
depVars == <<depStep, CORE_VERSION, PROC_BLOCK_VERSION, current_dir,
             depPath, depResult>>

genVars == <<proc_blocks, ctx_name, optimized, rune_repo_dir, cargoToml,
             cargoConfig>>

cycleVars == <<cyStep, cyInputs, cyDiags>>

analyseVars == <<anStep, anPanic, anPipeline, anOrder, anCtx>>

runtimeVars == <<PIPELINE, logger, rtTrace>>

audioVars == <<afStep, afInput, afOutput>>

vars == <<buildVars, pathVars, docVars, depVars, genVars, cycleVars,
          analyseVars, runtimeVars, audioVars>>

nonBuildVars == <<pathVars, docVars, depVars, genVars, cycleVars,
    analyseVars, runtimeVars, audioVars>>
nonPathVars == <<buildVars, docVars, depVars, genVars, cycleVars,
    analyseVars, runtimeVars, audioVars>>
nonDocVars == <<buildVars, pathVars, depVars, genVars, cycleVars,
    analyseVars, runtimeVars, audioVars>>
nonDepVars == <<buildVars, pathVars, docVars, genVars, cycleVars,
    analyseVars, runtimeVars, audioVars>>
nonGenVars == <<buildVars, pathVars, docVars, depVars, cycleVars,
    analyseVars, runtimeVars, audioVars>>
nonCycleVars == <<buildVars, pathVars, docVars, depVars, genVars,
    analyseVars, runtimeVars, audioVars>>
nonAnalyseVars == <<buildVars, pathVars, docVars, depVars, genVars, cycleVars,
    runtimeVars, audioVars>>
nonRuntimeVars == <<buildVars, pathVars, docVars, depVars, genVars, cycleVars,
    analyseVars, audioVars>>
nonAudioVars == <<buildVars, pathVars, docVars, depVars, genVars, cycleVars,
    analyseVars, runtimeVars>>

(***************************************************************************)
(* Bounds of the model.                                                    *)
(***************************************************************************)
\* Stage names are 1..NumStageNames (a name stands for its rank in the
\* lexicographic order of the names).
NumStageNames == 2
\* Longest string handed to Path::from_str.
MaxPathLen == 5

\* The host makes at most MaxCalls calls to the exports of a rune.
MaxCalls == 3
\* Longest input tensor handed to AudioFloatConversion::transform.
MaxAudioLen == 6

None == "none"

\* Option<T>: the empty sequence is None, <<v>> is Some(v).
Nothing == <<>>
Some(v) == <<v>>
is_some(o) == o # <<>>
unwrap(o) == o[1]

(***************************************************************************)
(* Generic helpers.                                                        *)
(***************************************************************************)
IsPrefix(s, t) == Len(s) <= Len(t) /\ SubSeq(t, 1, Len(s)) = s

SeqsUpTo(S, n) == UNION {[1..k -> S] : k \in 0..n}

\* All the orders in which the elements of S can be enumerated.
Orders(S) ==
    {f \in [1..Cardinality(S) -> S] : \A x \in S : \E i \in DOMAIN f : f[i] = x}

(***************************************************************************)
(* Diagnostics.                                                            *)
(***************************************************************************)
\* codespan_reporting::diagnostic::Severity values the phases push.
PhaseSeverities == {"Warning", "Error"}

has_errors(diags) == \E i \in DOMAIN diags : diags[i].severity \in {"Error", "Bug"}

(***************************************************************************)
(* The world's entities and the codegen inputs.                            *)
(***************************************************************************)
StageNames == 1..NumStageNames

\* The component sets lowering gives to an entity.
ComponentSets ==
    { {"Name", "ProcBlock", "Inputs", "Outputs"},
      {"Name", "Model", "ModelData", "Inputs", "Outputs"},
      {"Name", "Model", "Inputs", "Outputs"},
      {"Name", "Capability", "Outputs"},
      {"Name", "Sink", "Inputs"} }

Entities == [name : StageNames, comps : ComponentSets]

\* A world holds at most one entity per stage name (the pipeline is a map).
Worlds ==
    {w \in SUBSET Entities : \A e1, e2 \in w : e1.name = e2.name => e1 = e2}

Database_default ==
    [build_context |-> FALSE, feature_flags |-> FALSE,
     proc_block_names |-> Nothing, model_names |-> Nothing,
     node_inputs |-> {}, node_outputs |-> {},
     proc_block_info |-> {}, model_info |-> {}, model_data |-> {},
     files |-> FALSE]

\* <(&Name, &C1, ..)>::query(): the entities carrying all of `wanted`, in the
\* order the world iterates them.
Query(order, wanted) ==
    SelectSeq(order, LAMBDA e : wanted \subseteq e.comps)

NamesOf(es) == [i \in DOMAIN es |-> es[i].name]

RangeOf(s) == {s[i] : i \in DOMAIN s}

\* An update_db_before_codegen whose model query does not ask for ModelData.
update_db_before_codegen_without_model_data(order, d) ==
    LET pbs == Query(order, {"Name", "ProcBlock", "Inputs", "Outputs"})
        models == Query(order, {"Name", "Model", "Inputs", "Outputs"})
        pb_names == NamesOf(pbs)
        model_names == NamesOf(models)
    IN  [d EXCEPT !.proc_block_names = Some(pb_names),
                  !.model_names = Some(model_names),
                  !.node_inputs = @ \cup RangeOf(pb_names) \cup RangeOf(model_names),
                  !.node_outputs = @ \cup RangeOf(pb_names) \cup RangeOf(model_names),
                  !.proc_block_info = @ \cup RangeOf(pb_names),
                  !.model_info = @ \cup RangeOf(model_names),
                  !.model_data = @ \cup RangeOf(model_names)]

\* update_db_before_codegen(world, db), `order` being the order in which the
\* world's entities are iterated.
update_db_before_codegen(order, d) ==
    LET pbs == Query(order, {"Name", "ProcBlock", "Inputs", "Outputs"})
        models == Query(order, {"Name", "Model", "ModelData", "Inputs", "Outputs"})
        pb_names == NamesOf(pbs)
        model_names == NamesOf(models)
    IN  [d EXCEPT !.proc_block_names = Some(pb_names),
                  !.model_names = Some(model_names),
                  !.node_inputs = @ \cup RangeOf(pb_names) \cup RangeOf(model_names),
                  !.node_outputs = @ \cup RangeOf(pb_names) \cup RangeOf(model_names),
                  !.proc_block_info = @ \cup RangeOf(pb_names),
                  !.model_info = @ \cup RangeOf(model_names),
                  !.model_data = @ \cup RangeOf(model_names)]

(***************************************************************************)
(* build_with_hooks.                                                       *)
(***************************************************************************)
Continuation == {"Continue", "Halt"}

Resources_default ==
    [ctx |-> FALSE, features |-> FALSE, diagnostics |-> FALSE, diags |-> <<>>,
     document |-> FALSE, compilation |-> FALSE]

\* The hooks and phases in the order the driver runs them.
FullOrder ==
    <<"before_parse", "parse", "after_parse", "lowering", "after_lowering",
      "type_check", "after_type_checking", "codegen", "after_codegen",
      "compile", "after_compile">>

\* res.get_mut_or_default::<Diagnostics>().push(d)
push(r, d) ==
    [r EXCEPT !.diagnostics = TRUE, !.diags = Append(@, d)]

\* hooks.<h>(..) != Continue => return (world, res); otherwise go on at `next`.
Hook(h, next) ==
    /\ pc = h
    /\ \E c \in Continuation :
         /\ trace' = Append(trace, h)
         /\ IF c # "Continue"
            THEN /\ halted' = h
                 /\ ret' = Some([world |-> world, res |-> res])
                 /\ pc' = "done"
            ELSE /\ pc' = next
                 /\ UNCHANGED <<halted, ret>>
    /\ UNCHANGED <<parseOk, world, res, db>>

\* Lines 31-40: the database, the world and the resources are created.
Setup ==
    /\ pc = "entry"
    /\ db' = [Database_default EXCEPT !.build_context = TRUE,
                                      !.feature_flags = TRUE]
    /\ world' = {}
    /\ res' = [Resources_default EXCEPT !.ctx = TRUE, !.features = TRUE,
                                        !.diagnostics = TRUE]
    /\ pc' = "before_parse"
    /\ UNCHANGED <<parseOk, trace, halted, ret, nonBuildVars>>

before_parse == Hook("before_parse", "parse") /\ UNCHANGED nonBuildVars

\* A parse phase that returns as soon as the runefile fails to parse.
ParsePhase_aborts_on_error ==
    /\ pc = "parse"
    /\ trace' = Append(trace, "parse")
    /\ IF parseOk
       THEN /\ res' = [res EXCEPT !.document = TRUE]
            /\ pc' = "after_parse"
            /\ UNCHANGED ret
       ELSE /\ res' = push(res, [severity |-> "Error", phase |-> "parse"])
            /\ ret' = Some([world |-> world, res |-> res'])
            /\ pc' = "done"
    /\ UNCHANGED <<parseOk, world, db, halted, nonBuildVars>>

\* Lines 48-57: the "parse" phase.
ParsePhase ==
    /\ pc = "parse"
    /\ res' = IF parseOk
              THEN [res EXCEPT !.document = TRUE]
              ELSE push(res, [severity |-> "Error", phase |-> "parse"])
    /\ trace' = Append(trace, "parse")
    /\ pc' = "after_parse"
    /\ UNCHANGED <<parseOk, world, db, halted, ret, nonBuildVars>>

after_parse == Hook("after_parse", "lowering") /\ UNCHANGED nonBuildVars

\* Lines 64-65: lowering::phase().run(&mut world, &mut res).  The passes are
\* not part of the driver: they create the entities of the parsed document
\* and may push diagnostics.
LoweringPhase ==
    /\ pc = "lowering"
    /\ IF res.document
       THEN /\ world' \in Worlds
            /\ \/ UNCHANGED res
               \/ \E s \in PhaseSeverities :
                    res' = push(res, [severity |-> s, phase |-> "lowering"])
       ELSE UNCHANGED <<world, res>>
    /\ trace' = Append(trace, "lowering")
    /\ pc' = "after_lowering"
    /\ UNCHANGED <<parseOk, db, halted, ret, nonBuildVars>>

\* An after_lowering hook after which the driver goes straight to codegen.
after_lowering_skips_type_check ==
    Hook("after_lowering", "codegen") /\ UNCHANGED nonBuildVars

after_lowering == Hook("after_lowering", "type_check") /\ UNCHANGED nonBuildVars

\* A type-check phase that starts from a fresh Diagnostics collection.
TypeCheckPhase_resets_diagnostics ==
    /\ pc = "type_check"
    /\ \E s \in PhaseSeverities :
         res' = [res EXCEPT !.diags = <<[severity |-> s, phase |-> "type_check"]>>]
    /\ trace' = Append(trace, "type_check")
    /\ pc' = "after_type_checking"
    /\ UNCHANGED <<parseOk, world, db, halted, ret, nonBuildVars>>

\* Lines 73-74: type_check::phase().run(&mut world, &mut res).
TypeCheckPhase ==
    /\ pc = "type_check"
    /\ IF world # {}
       THEN \/ UNCHANGED res
            \/ \E s \in PhaseSeverities :
                 res' = push(res, [severity |-> s, phase |-> "type_check"])
       ELSE UNCHANGED res
    /\ trace' = Append(trace, "type_check")
    /\ pc' = "after_type_checking"
    /\ UNCHANGED <<parseOk, world, db, halted, ret, nonBuildVars>>

\* An after_type_checking hook whose Halt the driver does not act upon.
after_type_checking_ignores_halt ==
    /\ pc = "after_type_checking"
    /\ \E c \in Continuation :
         halted' = IF c # "Continue" THEN "after_type_checking" ELSE halted
    /\ trace' = Append(trace, "after_type_checking")
    /\ pc' = "codegen"
    /\ UNCHANGED <<parseOk, world, res, db, ret, nonBuildVars>>

after_type_checking == Hook("after_type_checking", "codegen") /\ UNCHANGED nonBuildVars

\* Lines 82-86: update_db_before_codegen(&world, &mut db); db.files().
CodegenPhase ==
    /\ pc = "codegen"
    /\ \E order \in Orders(world) :
         db' = [update_db_before_codegen(order, db) EXCEPT !.files = TRUE]
    /\ trace' = Append(trace, "codegen")
    /\ pc' = "after_codegen"
    /\ UNCHANGED <<parseOk, world, res, halted, ret, nonBuildVars>>

after_codegen == Hook("after_codegen", "compile") /\ UNCHANGED nonBuildVars

\* A compile step that is skipped when Diagnostics holds an error.
CompilePhase_skipped_on_errors ==
    /\ pc = "compile"
    /\ res' = IF has_errors(res.diags) THEN res ELSE [res EXCEPT !.compilation = TRUE]
    /\ trace' = Append(trace, "compile")
    /\ pc' = "after_compile"
    /\ UNCHANGED <<parseOk, world, db, halted, ret, nonBuildVars>>

\* Lines 94-95: db.build(); res.insert(CompilationResult(result)).
CompilePhase ==
    /\ pc = "compile"
    /\ res' = [res EXCEPT !.compilation = TRUE]
    /\ trace' = Append(trace, "compile")
    /\ pc' = "after_compile"
    /\ UNCHANGED <<parseOk, world, db, halted, ret, nonBuildVars>>

after_compile == Hook("after_compile", "return") /\ UNCHANGED nonBuildVars

\* Line 103: (world, res).
Return ==
    /\ pc = "return"
    /\ ret' = Some([world |-> world, res |-> res])
    /\ pc' = "done"
    /\ UNCHANGED <<parseOk, world, res, db, trace, halted, nonBuildVars>>

(***************************************************************************)
(* Properties of build_with_hooks.                                         *)
(***************************************************************************)
Pos(e) == CHOOSE i \in DOMAIN FullOrder : FullOrder[i] = e

Ran(e) == \E i \in DOMAIN trace : trace[i] = e

Hooks == {"before_parse", "after_parse", "after_lowering",
          "after_type_checking", "after_codegen", "after_compile"}

\* C1: when a hook returns Halt the driver returns at once: the hooks and
\* phases that ran are exactly those up to and including that hook, so no
\* later phase runs; a Halt before codegen leaves the codegen inputs unset
\* and the files query unexecuted, and a Halt before compile leaves no
\* CompilationResult in the resources.
C1_HaltStopsThePipeline ==
    halted # None =>
        /\ pc = "done"
        /\ trace = SubSeq(FullOrder, 1, Pos(halted))
        /\ ret = Some([world |-> world, res |-> res])
        /\ Pos(halted) < Pos("parse") => ~res.document /\ res.diags = <<>>
        /\ Pos(halted) < Pos("lowering") => world = {}
        /\ Pos(halted) < Pos("codegen") =>
              ~db.files /\ db.proc_block_names = Nothing /\ db.model_names = Nothing
        /\ Pos(halted) < Pos("compile") => ~res.compilation

C1_Witness ==
    /\ pc = "done"
    /\ halted = "after_type_checking"
    /\ world # {}
    /\ Ran("type_check")

\* C2: the hooks and phases run in the one order before_parse, parse,
\* after_parse, lowering, after_lowering, type_check, after_type_checking,
\* codegen, after_codegen, compile, after_compile: what has run is always a
\* prefix of that order, the driver's position is the next element of it, and
\* a build in which every hook returned Continue has run each element once.
C2_PhasesAndHooksInOrder ==
    /\ IsPrefix(trace, FullOrder)
    /\ pc \in RangeOf(FullOrder) => trace = SubSeq(FullOrder, 1, Pos(pc) - 1)
    /\ (pc \in {"return", "done"} /\ halted = None) => trace = FullOrder

C2_Witness ==
    /\ pc = "done"
    /\ halted = None
    /\ parseOk
    /\ trace = FullOrder

\* C3: the driver returns the world and the resources on every path; the
\* resources always hold the BuildContext, the FeatureFlags and the
\* Diagnostics, and no step ever removes a diagnostic that was recorded.
C3_ResourcesAlwaysReturned ==
    [][ /\ res.diagnostics =>
              /\ res'.diagnostics
              /\ IsPrefix(res.diags, res'.diags)
              /\ res'.ctx /\ res'.features
        /\ pc' = "done" =>
              /\ ret' = Some([world |-> world', res |-> res'])
              /\ unwrap(ret').res.ctx /\ unwrap(ret').res.features
              /\ unwrap(ret').res.diagnostics
      ]_vars

C3_Witness ==
    /\ pc = "done"
    /\ halted \in Hooks
    /\ is_some(ret)
    /\ Len(unwrap(ret).res.diags) = 2

\* C4: when the runefile does not parse, the parse phase records exactly one
\* diagnostic and no Document, and the driver carries on: after_parse is
\* invoked, and unless a hook halts the lowering and later phases run.
C4_ParseFailureIsRecoverable ==
    ~parseOk =>
        /\ ~res.document
        /\ pc = "after_parse" => Len(res.diags) = 1 /\ ret = Nothing
        /\ (pc = "done" /\ halted # "before_parse") => Ran("after_parse")
        /\ (pc = "done" /\ halted \notin {"before_parse", "after_parse"}) =>
              Ran("lowering")
        /\ (pc = "done" /\ halted = None) => trace = FullOrder

C4_Witness ==
    /\ ~parseOk
    /\ pc = "done"
    /\ halted = None
    /\ Ran("lowering")
    /\ Len(res.diags) = 1

\* C5 (as claimed): once Diagnostics holds a record of severity Error or
\* worse, the driver does not run the compile step and stores no
\* CompilationResult.
C5_ErrorsPreventCompile ==
    has_errors(res.diags) =>
        ~res.compilation /\ ~Ran("compile")

\* C5 (amended): the driver never inspects Diagnostics.  With an Error
\* record present after type checking it still runs codegen and compile and
\* stores a CompilationResult, unless after_type_checking or after_codegen
\* returns Halt; the Error record is still in the returned Diagnostics.
C5_OnlyHaltPreventsCompile ==
    (pc = "done" /\ Ran("type_check") /\ has_errors(res.diags)) =>
        /\ res.compilation <=>
              halted \notin {"after_type_checking", "after_codegen"}
        /\ Ran("compile") <=> res.compilation
        /\ has_errors(unwrap(ret).res.diags)

C5_Witness ==
    /\ pc = "done"
    /\ has_errors(res.diags)
    /\ ~parseOk
    /\ res.compilation
    /\ unwrap(ret).res.compilation

\* C6 (as claimed): the proc_block_names and model_names handed to codegen do
\* not depend on the order in which the world's entities are iterated: every
\* other iteration order of the same world gives the same lists.
C6_CodegenInputsIndependentOfOrder ==
    db.files =>
        \A order \in Orders(world) :
            LET d == update_db_before_codegen(order, Database_default)
            IN  /\ d.proc_block_names = db.proc_block_names
                /\ d.model_names = db.model_names

\* The names of the world's entities that carry all of `wanted`.
NamesWith(wanted) == {e.name : e \in {x \in world : wanted \subseteq x.comps}}

\* Have the inputs update_db_before_codegen sets been set?
CodegenInputsSet ==
    \/ db.proc_block_names # Nothing \/ db.model_names # Nothing
    \/ db.node_inputs # {} \/ db.node_outputs # {}
    \/ db.proc_block_info # {} \/ db.model_info # {} \/ db.model_data # {}

\* What C27 says of a state: the codegen inputs are set only once type
\* checking and its hook have run, they are set when the files query has
\* run, and then the two name lists hold each qualifying name once and every
\* per-name input is set for every listed name.
CodegenInputsComplete ==
    /\ CodegenInputsSet =>
          \E i, j, k \in DOMAIN trace :
              /\ i < j /\ j < k
              /\ trace[i] = "type_check"
              /\ trace[j] = "after_type_checking"
              /\ trace[k] = "codegen"
    /\ db.files =>
          /\ db.proc_block_names # Nothing /\ db.model_names # Nothing
          /\ LET pb_names == unwrap(db.proc_block_names)
                 model_names == unwrap(db.model_names)
             IN  /\ RangeOf(pb_names)
                       = NamesWith({"Name", "ProcBlock", "Inputs", "Outputs"})
                 /\ Len(pb_names) = Cardinality(RangeOf(pb_names))
                 /\ RangeOf(model_names)
                       = NamesWith({"Name", "Model", "ModelData", "Inputs",
                                    "Outputs"})
                 /\ Len(model_names) = Cardinality(RangeOf(model_names))
                 /\ \A e \in world :
                       ("Model" \in e.comps /\ "ModelData" \notin e.comps)
                           => e.name \notin RangeOf(model_names)
                 /\ \A n \in RangeOf(pb_names) :
                       /\ n \in db.node_inputs /\ n \in db.node_outputs
                       /\ n \in db.proc_block_info
                 /\ \A n \in RangeOf(model_names) :
                       /\ n \in db.node_inputs /\ n \in db.node_outputs
                       /\ n \in db.model_info /\ n \in db.model_data

\* C27: the codegen inputs are set once, after type checking and before the
\* files query: a set input is never set again, and when the files query
\* runs proc_block_names holds exactly the names of the entities with Name,
\* ProcBlock, Inputs and Outputs, model_names exactly those with Name, Model,
\* ModelData, Inputs and Outputs, and node_inputs, node_outputs, the info
\* and the data inputs are set for every listed name.
C27_CodegenInputsSetOnceAndComplete ==
    /\ []CodegenInputsComplete
    /\ [][CodegenInputsSet => db' = db]_vars

C27_Witness ==
    /\ db.files
    /\ \E e \in world : e.comps = {"Name", "Model", "Inputs", "Outputs"}
    /\ \E e \in world : e.comps = {"Name", "ProcBlock", "Inputs", "Outputs"}
    /\ Len(unwrap(db.proc_block_names)) = 1
    /\ unwrap(db.model_names) = <<>>

(***************************************************************************)
(* Path: the regular expression of FromStr and the rendering of Display.   *)
(***************************************************************************)
\* The characters a string handed to Path::from_str is made of here: a word
\* character, ':', '@', '#' and a character outside every class.
PathChars == {"a", ":", "@", "#", " "}

\* Characters outside [\w\d:/_.-]: the separators and anything else.
NonPathChars == {"@", "#", " ", "!"}

\* [\w\d:/_.-]
IsBaseChar(c) == c \notin NonPathChars

\* [\w\d./-]
IsVersionChar(c) == c \notin NonPathChars /\ c # ":"

\* [\w\d._/-]
IsSubPathChar(c) == c \notin NonPathChars /\ c # ":"

\* The end (exclusive) of the longest run of characters of class `cls` that
\* starts at index i of s.
RECURSIVE RunEnd(_, _, _)
RunEnd(s, i, cls) ==
    IF i <= Len(s) /\ ( \/ cls = "base" /\ IsBaseChar(s[i])
                        \/ cls = "version" /\ IsVersionChar(s[i])
                        \/ cls = "sub_path" /\ IsSubPathChar(s[i]) )
    THEN RunEnd(s, i + 1, cls)
    ELSE i

PathParseError == [ok |-> FALSE]

Ok(v) == [ok |-> TRUE, path |-> v]

Path_new(base, sub_path, version) ==
    [base |-> base, sub_path |-> sub_path, version |-> version]

\* PATTERN.captures(s): the regular expression is not anchored, so the match
\* starts at the first character that can start a base; each group is greedy.
\* The result is <<start, end of base, end of version, end of sub_path>>, a
\* group that does not take part having the end of the one before it, or the
\* empty sequence when nothing matches.
captures(s) ==
    LET starts == {i \in 1..Len(s) : IsBaseChar(s[i])}
    IN  IF starts = {}
        THEN <<>>
        ELSE LET b == CHOOSE i \in starts : \A j \in starts : i <= j
                 be == RunEnd(s, b, "base")
                 ve == IF be <= Len(s) /\ s[be] = "@"
                          /\ RunEnd(s, be + 1, "version") > be + 1
                       THEN RunEnd(s, be + 1, "version")
                       ELSE be
                 se == IF ve <= Len(s) /\ s[ve] = "#"
                          /\ RunEnd(s, ve + 1, "sub_path") > ve + 1
                       THEN RunEnd(s, ve + 1, "sub_path")
                       ELSE ve
             IN  <<b, be, ve, se>>

\* impl FromStr for Path
from_str(s) ==
    LET c == captures(s)
    IN  IF c = <<>>
        THEN PathParseError
        ELSE Ok(Path_new(SubSeq(s, c[1], c[2] - 1),
                         IF c[4] > c[3] THEN Some(SubSeq(s, c[3] + 1, c[4] - 1))
                                        ELSE Nothing,
                         IF c[3] > c[2] THEN Some(SubSeq(s, c[2] + 1, c[3] - 1))
                                        ELSE Nothing))

\* impl Display for Path
to_string(p) ==
    p.base
      \o (IF is_some(p.sub_path) THEN <<"#">> \o unwrap(p.sub_path) ELSE <<>>)
      \o (IF is_some(p.version) THEN <<"@">> \o unwrap(p.version) ELSE <<>>)

\* let p: Path = s.parse()
PathFromStr ==
    /\ pathStep = "input"
    /\ pathParsed' = Some(from_str(pathInput))
    /\ pathStep' = "parsed"
    /\ UNCHANGED <<pathInput, pathText, pathAgain, nonPathVars>>

\* p.to_string()
PathToString ==
    /\ pathStep = "parsed"
    /\ unwrap(pathParsed).ok
    /\ pathText' = Some(to_string(unwrap(pathParsed).path))
    /\ pathStep' = "rendered"
    /\ UNCHANGED <<pathInput, pathParsed, pathAgain, nonPathVars>>

\* p.to_string().parse()
PathReparse ==
    /\ pathStep = "rendered"
    /\ pathAgain' = Some(from_str(unwrap(pathText)))
    /\ pathStep' = "reparsed"
    /\ UNCHANGED <<pathInput, pathParsed, pathText, nonPathVars>>

(***************************************************************************)
(* Document: serde's derived Deserialize / Serialize.                      *)
(*                                                                         *)
(* A YAML document is the record of its top-level keys: image (Option: a   *)
(* string), pipeline (Option: a set of [name, body] entries, one per stage *)
(* name) and version (is that unknown key present?).  A stage body is the  *)
(* record of its keys: model, proc_block, capability, out (Option: a       *)
(* string), inputs (Option: a list of stage names) and other (is an        *)
(* unknown key present?).  The outputs and args keys behave as inputs      *)
(* does (#[serde(default)], written back as they were read).               *)
(***************************************************************************)
\* The strings used as image and proc-block paths in a Runefile.
DocPathStrings ==
    { <<"a">>, <<"a", "@", "a">>, <<"a", "#", "a">>,
      <<"a", "@", "a", "#", "a">>, <<"@">> }

\* The stage name used in the pipeline.
DocStageNames == {1}

YamlBodies ==
    [model : {Nothing, Some(<<".", "/", "m">>)},
     proc_block : {Nothing} \cup {Some(t) : t \in DocPathStrings},
     capability : {Nothing, Some(<<"SOUND">>)},
     out : {Nothing, Some(<<"SERIAL">>)},
     inputs : {Nothing, Some(<<1>>)},
     other : BOOLEAN]

YamlPipelines ==
    {{}} \cup {{[name |-> n, body |-> y]} : n \in DocStageNames, y \in YamlBodies}

YamlDocuments ==
    [image : {Nothing} \cup {Some(t) : t \in DocPathStrings},
     pipeline : {Nothing} \cup {Some(pl) : pl \in YamlPipelines},
     version : BOOLEAN]

Err == [ok |-> FALSE]

Parsed(v) == [ok |-> TRUE, value |-> v]

\* #[serde(default)] inputs: Vec<String>
inputs_or_default(y) == IF is_some(y.inputs) THEN unwrap(y.inputs) ELSE <<>>

\* #[serde(untagged)] enum Stage: the variants are tried in the order of their
\* declaration and the first one that deserializes wins; a key the variant
\* does not know is skipped (there is no deny_unknown_fields).
deserialize_stage(y) ==
    IF is_some(y.model)
    THEN Parsed([kind |-> "Model", model |-> unwrap(y.model),
                 inputs |-> inputs_or_default(y)])
    ELSE IF is_some(y.proc_block) /\ from_str(unwrap(y.proc_block)).ok
    THEN Parsed([kind |-> "ProcBlock",
                 proc_block |-> from_str(unwrap(y.proc_block)).path,
                 inputs |-> inputs_or_default(y)])
    ELSE IF is_some(y.capability)
    THEN Parsed([kind |-> "Capability", capability |-> unwrap(y.capability)])
    ELSE IF is_some(y.out)
    THEN Parsed([kind |-> "Out", out |-> unwrap(y.out),
                 inputs |-> inputs_or_default(y)])
    ELSE Err

\* A Document that is #[serde(deny_unknown_fields)]: a top-level key other
\* than image and pipeline is an error.
Document_parse_deny_unknown_fields(y) ==
    IF y.version \/ ~is_some(y.image) \/ ~is_some(y.pipeline)
    THEN Err
    ELSE IF ~from_str(unwrap(y.image)).ok
    THEN Err
    ELSE IF \E e \in unwrap(y.pipeline) : ~deserialize_stage(e.body).ok
    THEN Err
    ELSE Parsed([image |-> from_str(unwrap(y.image)).path,
                 pipeline |-> {[name |-> e.name,
                                stage |-> deserialize_stage(e.body).value] :
                               e \in unwrap(y.pipeline)}])

\* Document::parse: both fields are required, image is parsed as a Path, and
\* every stage body must match a variant of Stage.  The derive carries no
\* deny_unknown_fields, so any other top-level key is skipped.
Document_parse(y) ==
    IF ~is_some(y.image) \/ ~is_some(y.pipeline)
    THEN Err
    ELSE IF ~from_str(unwrap(y.image)).ok
    THEN Err
    ELSE IF \E e \in unwrap(y.pipeline) : ~deserialize_stage(e.body).ok
    THEN Err
    ELSE Parsed([image |-> from_str(unwrap(y.image)).path,
                 pipeline |-> {[name |-> e.name,
                                stage |-> deserialize_stage(e.body).value] :
                               e \in unwrap(y.pipeline)}])

EmptyBody ==
    [model |-> Nothing, proc_block |-> Nothing, capability |-> Nothing,
     out |-> Nothing, inputs |-> Nothing, other |-> FALSE]

\* Serialize for Stage (untagged): the fields of the variant, a Path as its
\* string form.
serialize_stage(st) ==
    CASE st.kind = "Model" ->
           [EmptyBody EXCEPT !.model = Some(st.model), !.inputs = Some(st.inputs)]
      [] st.kind = "ProcBlock" ->
           [EmptyBody EXCEPT !.proc_block = Some(to_string(st.proc_block)),
                             !.inputs = Some(st.inputs)]
      [] st.kind = "Capability" ->
           [EmptyBody EXCEPT !.capability = Some(st.capability)]
      [] st.kind = "Out" ->
           [EmptyBody EXCEPT !.out = Some(st.out), !.inputs = Some(st.inputs)]

\* serde_yaml::to_string(&doc)
serialize_document(d) ==
    [image |-> Some(to_string(d.image)),
     pipeline |-> Some({[name |-> e.name, body |-> serialize_stage(e.stage)] :
                        e \in d.pipeline}),
     version |-> FALSE]

\* Document::parse(yaml)
DocParse ==
    /\ docStep = "input"
    /\ docParsed' = Some(Document_parse(docYaml))
    /\ docStep' = "parsed"
    /\ UNCHANGED <<docYaml, docText, docAgain, nonDocVars>>

\* BuildContext::from_doc: runefile = serde_yaml::to_string(&doc).unwrap()
DocSerialize ==
    /\ docStep = "parsed"
    /\ unwrap(docParsed).ok
    /\ docText' = Some(serialize_document(unwrap(docParsed).value))
    /\ docStep' = "serialized"
    /\ UNCHANGED <<docYaml, docParsed, docAgain, nonDocVars>>

\* Document::parse(&runefile)
DocReparse ==
    /\ docStep = "serialized"
    /\ docAgain' = Some(Document_parse(unwrap(docText)))
    /\ docStep' = "reparsed"
    /\ UNCHANGED <<docYaml, docParsed, docText, nonDocVars>>

(***************************************************************************)
(* The dependency resolver of the Cargo.toml generator.                    *)
(***************************************************************************)
\* const REPO: "https://github.com/hotg-ai/rune"
REPO ==
    <<"https", ":", "/", "/", "github", ".", "com", "/", "hotg-ai", "/", "rune">>

\* The values hotg_rune_core::VERSION and hotg_rune_proc_blocks::VERSION can
\* have: each is the version of its own crate.
CrateVersions ==
    { <<"0", ".", "10", ".", "0">>, <<"0", ".", "11", ".", "0">> }

empty_dependency_detail ==
    [version |-> Nothing, registry |-> Nothing, registry_index |-> Nothing,
     path |-> Nothing, git |-> Nothing, branch |-> Nothing, tag |-> Nothing,
     rev |-> Nothing, features |-> <<>>, optional |-> FALSE,
     default_features |-> Nothing, package |-> Nothing]

is_builtin(path) == path.base = <<"hotg-ai", "/", "rune">>

git_tagged_dependency(repo, tag) ==
    [empty_dependency_detail EXCEPT !.git = Some(repo), !.tag = Some(tag)]

\* base.starts_with('.')
starts_with_dot(str) == str # <<>> /\ str[1] = "."

\* base.contains('/')
contains_slash(str) == \E i \in DOMAIN str : str[i] = "/"

\* current_dir.join(&path.base).display().to_string(), for a relative base
join(dir, rel) == dir \o <<"/">> \o rel

local_proc_block(path, dir) ==
    [empty_dependency_detail EXCEPT !.path = Some(join(dir, path.base))]

\* proc_block_dependency with the registry rule forgetting to look at sub_path.
proc_block_dependency_registry_ignores_sub_path(path, dir) ==
    IF is_builtin(path)
    THEN git_tagged_dependency(REPO, <<"v">> \o PROC_BLOCK_VERSION)
    ELSE IF starts_with_dot(path.base)
    THEN local_proc_block(path, dir)
    ELSE IF ~contains_slash(path.base) /\ is_some(path.version)
    THEN [empty_dependency_detail EXCEPT !.version = Some(unwrap(path.version))]
    ELSE [empty_dependency_detail EXCEPT
            !.git = Some(<<"https", ":", "/", "/", "github", ".", "com", "/">>
                           \o path.base \o <<".", "git">>)]

\* proc_block_dependency with the registry rule tried before the local rule.
proc_block_dependency_registry_before_local(path, dir) ==
    IF is_builtin(path)
    THEN git_tagged_dependency(REPO, <<"v">> \o PROC_BLOCK_VERSION)
    ELSE IF ~is_some(path.sub_path) /\ ~contains_slash(path.base)
            /\ is_some(path.version)
    THEN [empty_dependency_detail EXCEPT !.version = Some(unwrap(path.version))]
    ELSE IF starts_with_dot(path.base)
    THEN local_proc_block(path, dir)
    ELSE [empty_dependency_detail EXCEPT
            !.git = Some(<<"https", ":", "/", "/", "github", ".", "com", "/">>
                           \o path.base \o <<".", "git">>)]

proc_block_dependency(path, dir) ==
    IF is_builtin(path)
    THEN git_tagged_dependency(REPO, <<"v">> \o PROC_BLOCK_VERSION)
    ELSE IF starts_with_dot(path.base)
    THEN local_proc_block(path, dir)
    ELSE IF ~is_some(path.sub_path) /\ ~contains_slash(path.base)
            /\ is_some(path.version)
    THEN [empty_dependency_detail EXCEPT !.version = Some(unwrap(path.version))]
    ELSE [empty_dependency_detail EXCEPT
            !.git = Some(<<"https", ":", "/", "/", "github", ".", "com", "/">>
                           \o path.base \o <<".", "git">>)]

\* The proc-block paths the resolver is given.
DepBases ==
    { <<"hotg-ai", "/", "rune">>, <<".", "/", "my_proc_block">>,
      <<".", "local_block">>, <<"whatever">>, <<"owner", "/", "repo">> }

DepVersions == {Nothing, Some(<<"1", ".", "2">>)}

DepSubPaths == {Nothing, Some(<<"proc_blocks", "/", "modulo">>)}

DepPaths ==
    {Path_new(b, sp, v) : b \in DepBases, sp \in DepSubPaths, v \in DepVersions}

CurrentDirs == { <<".">>, <<"/", "home", "/", "rune">> }

\* let dep = proc_block_dependency(&proc_block.path, current_dir)
ResolveDependency ==
    /\ depStep = "input"
    /\ depResult' = Some(proc_block_dependency(depPath, current_dir))
    /\ depStep' = "resolved"
    /\ UNCHANGED <<CORE_VERSION, PROC_BLOCK_VERSION, current_dir, depPath,
                   nonDepVars>>

(***************************************************************************)
(* The codegen emitters: Cargo.toml and .cargo/config.toml.                *)
(*                                                                         *)
(* A map (DepsSet, PatchSet, BTreeMap) is a function from its keys.  A     *)
(* File is the record of its path and of the value its bytes are the TOML  *)
(* form of.                                                                *)
(***************************************************************************)
\* BTreeMap::new()
BTreeMap_new == <<>>

\* map.insert(k, v): a later insert replaces the entry of an equal key.
insert(m, k, v) == [n \in DOMAIN m \cup {k} |-> IF n = k THEN v ELSE m[n]]

\* cargo_toml::Dependency
Simple(version) == [kind |-> "Simple", version |-> version]

Detailed(detail) == [kind |-> "Detailed", detail |-> detail]

\* Dependency::git()
git(dep) == IF dep.kind = "Detailed" THEN dep.detail.git ELSE Nothing

\* s.rfind('/'): the position of the last '/', 0 when there is none.
rfind_slash(s) ==
    IF \E i \in DOMAIN s : s[i] = "/"
    THEN CHOOSE i \in DOMAIN s :
            s[i] = "/" /\ \A j \in DOMAIN s : s[j] = "/" => j <= i
    ELSE 0

\* ProcBlock::name(): the last segment of the path's sub_path, or of its
\* base when it has no sub_path.
ProcBlock_name(path) ==
    LET full_name == IF is_some(path.sub_path) THEN unwrap(path.sub_path)
                     ELSE path.base
    IN  SubSeq(full_name, rfind_slash(full_name) + 1, Len(full_name))

RECURSIVE insert_proc_blocks(_, _, _, _)
\* for proc_block in proc_blocks { deps.insert(name, Detailed(dep)) }
insert_proc_blocks(deps, pbs, i, dir) ==
    IF i > Len(pbs)
    THEN deps
    ELSE insert_proc_blocks(
             insert(deps, ProcBlock_name(pbs[i]),
                    Detailed(proc_block_dependency(pbs[i], dir))),
             pbs, i + 1, dir)

\* dependencies without the feature lazy_static needs on a no_std target.
dependencies_without_spin_no_std(pbs, dir) ==
    LET log == Detailed([empty_dependency_detail EXCEPT
                   !.version = Some(<<"0", ".", "4">>),
                   !.features = <<"max_level_debug", "release_max_level_info">>])
        lazy_static == Detailed([empty_dependency_detail EXCEPT
                           !.version = Some(<<"1", ".", "0">>)])
        d1 == insert(BTreeMap_new, <<"log">>, log)
        d2 == insert(d1, <<"lazy_static">>, lazy_static)
        d3 == insert(d2, <<"hotg-rune-core">>, Simple(CORE_VERSION))
        d4 == insert(d3, <<"hotg-rune-proc-blocks">>, Simple(PROC_BLOCK_VERSION))
        d5 == insert(d4, <<"hotg-runicos-base-wasm">>, Simple(CORE_VERSION))
    IN  insert_proc_blocks(d5, pbs, 1, dir)

dependencies(pbs, dir) ==
    LET log == Detailed([empty_dependency_detail EXCEPT
                   !.version = Some(<<"0", ".", "4">>),
                   !.features = <<"max_level_debug", "release_max_level_info">>])
        lazy_static == Detailed([empty_dependency_detail EXCEPT
                           !.version = Some(<<"1", ".", "0">>),
                           !.features = <<"spin_no_std">>])
        d1 == insert(BTreeMap_new, <<"log">>, log)
        d2 == insert(d1, <<"lazy_static">>, lazy_static)
        d3 == insert(d2, <<"hotg-rune-core">>, Simple(CORE_VERSION))
        d4 == insert(d3, <<"hotg-rune-proc-blocks">>, Simple(PROC_BLOCK_VERSION))
        d5 == insert(d4, <<"hotg-runicos-base-wasm">>, Simple(CORE_VERSION))
    IN  insert_proc_blocks(d5, pbs, 1, dir)

empty_package ==
    [name |-> <<>>, edition |-> "2015", version |-> <<>>, build |-> Nothing,
     workspace |-> Nothing, authors |-> <<>>, links |-> Nothing,
     description |-> Nothing, homepage |-> Nothing, documentation |-> Nothing,
     readme |-> Nothing, keywords |-> <<>>, categories |-> <<>>,
     license |-> Nothing, license_file |-> Nothing, repository |-> Nothing,
     metadata |-> Nothing, default_run |-> Nothing, autobins |-> FALSE,
     autoexamples |-> FALSE, autotests |-> FALSE, autobenches |-> FALSE,
     publish |-> TRUE, resolver |-> Nothing]

\* package leaving the resolver at its default.
package_without_resolver(n) ==
    [empty_package EXCEPT !.name = n, !.edition = "2018",
                          !.version = <<"0", ".", "0", ".", "0">>,
                          !.publish = FALSE]

package(n) ==
    [empty_package EXCEPT !.name = n, !.edition = "2018",
                          !.version = <<"0", ".", "0", ".", "0">>,
                          !.publish = FALSE, !.resolver = Some("2")]

empty_manifest ==
    [package |-> Nothing, dependencies |-> BTreeMap_new, lib |-> Nothing,
     workspace |-> Nothing, dev_dependencies |-> BTreeMap_new,
     build_dependencies |-> BTreeMap_new, target |-> BTreeMap_new,
     features |-> BTreeMap_new, patch |-> BTreeMap_new,
     profile |-> BTreeMap_new, badges |-> BTreeMap_new, bin |-> <<>>,
     bench |-> <<>>, test |-> <<>>, example |-> <<>>]

generate_manifest(pbs, n, dir) ==
    LET product == [path |-> Some(<<"lib", ".", "rs">>),
                    edition |-> Some("2018"),
                    crate_type |-> Some(<< <<"cdylib">> >>)]
    IN  [empty_manifest EXCEPT
            !.package = Some(package(n)),
            !.lib = Some(product),
            !.dependencies = dependencies(pbs, dir),
            !.workspace = Some([members |-> << <<".">> >>,
                                default_members |-> << <<".">> >>,
                                exclude |-> <<>>,
                                metadata |-> Nothing])]

path_dependency(path) ==
    Detailed([empty_dependency_detail EXCEPT !.path = Some(path)])

\* The words of the model that start with "hotg-".
HotgWords ==
    {"hotg-rune-core", "hotg-rune-proc-blocks", "hotg-runicos-base-wasm",
     "hotg-extra", "hotg-ai"}

\* name.starts_with("hotg-")
starts_with_hotg(n) == n # <<>> /\ n[1] \in HotgWords

known_paths ==
    << <<(<<"hotg-rune-core">>), (<<"crates", "/", "rune-core">>)>>,
       <<(<<"hotg-rune-proc-blocks">>), (<<"proc-blocks", "/", "proc-blocks">>)>>,
       <<(<<"hotg-runicos-base-wasm">>),
         (<<"images", "/", "runicos-base", "/", "wasm">>)>> >>

\* The local crate a hotg dependency is redirected to: one of the known
\* crates, otherwise a proc block.
local_crate(hotg_repo_dir, n) ==
    IF \E i \in DOMAIN known_paths : known_paths[i][1] = n
    THEN LET i == CHOOSE i \in DOMAIN known_paths :
                     /\ known_paths[i][1] = n
                     /\ \A j \in 1..(i - 1) : known_paths[j][1] # n
         IN  join(hotg_repo_dir, known_paths[i][2])
    ELSE join(join(hotg_repo_dir, <<"proc-blocks">>), n)

\* is_hotg_crate asking for the name and the repository at once.
is_hotg_crate_requires_both(n, dep) ==
    ~(~starts_with_hotg(n) \/ ~(git(dep) = Some(REPO)))

\* The dependencies the loop of patch_hotg_dependencies does not skip.
is_hotg_crate(n, dep) ==
    ~(~starts_with_hotg(n) /\ ~(git(dep) = Some(REPO)))

\* manifest.patch.entry(key).or_default().extend(overrides)
extend_patch(manifest, key, overrides) ==
    LET table == IF key \in DOMAIN manifest.patch THEN manifest.patch[key]
                 ELSE BTreeMap_new
        extended == [n \in DOMAIN table \cup DOMAIN overrides |->
                        IF n \in DOMAIN overrides THEN overrides[n] ELSE table[n]]
    IN  [manifest EXCEPT !.patch = insert(@, key, extended)]

\* patch_hotg_dependencies without the loop over the manifest's dependencies.
patch_hotg_dependencies_only_core_crates(hotg_repo_dir, manifest) ==
    LET o2 == insert(BTreeMap_new, <<"hotg-rune-core">>,
                  path_dependency(join(join(hotg_repo_dir, <<"crates">>),
                                       <<"rune-core">>)))
        o3 == insert(o2, <<"hotg-rune-proc-blocks">>,
                  path_dependency(join(join(hotg_repo_dir, <<"proc-blocks">>),
                                       <<"proc-blocks">>)))
    IN  extend_patch(extend_patch(manifest, <<"crates-io">>, o3), REPO, o3)

patch_hotg_dependencies(hotg_repo_dir, manifest) ==
    LET deps == manifest.dependencies
        o1 == [n \in {k \in DOMAIN deps : is_hotg_crate(k, deps[k])} |->
                  path_dependency(local_crate(hotg_repo_dir, n))]
        o2 == insert(o1, <<"hotg-rune-core">>,
                  path_dependency(join(join(hotg_repo_dir, <<"crates">>),
                                       <<"rune-core">>)))
        o3 == insert(o2, <<"hotg-rune-proc-blocks">>,
                  path_dependency(join(join(hotg_repo_dir, <<"proc-blocks">>),
                                       <<"proc-blocks">>)))
    IN  extend_patch(extend_patch(manifest, <<"crates-io">>, o3), REPO, o3)

\* File::new(path, data)
File_new(path, data) == [path |-> path, data |-> data]

\* #[serde(rename_all = "kebab-case")] on the name of a field, its words
\* separated by "_" tokens.
kebab_case(id) == [i \in DOMAIN id |-> IF id[i] = "_" THEN "-" ELSE id[i]]

\* toml::to_vec(&config): the key-value pairs of the document, each under the
\* table it belongs to; a field that is None is not written.
to_vec(config) ==
    (IF is_some(config.target)
     THEN {[table |-> << <<"target">>,
                         kebab_case(<<"wasm32", "_", "unknown", "_", "unknown">>) >>,
            key |-> <<"rustflags">>,
            value |-> [type |-> "array",
                       text |-> unwrap(config.target).wasm32_unknown_unknown.rustflags]]}
     ELSE {})
    \cup {[table |-> << <<"net">> >>,
           key |-> kebab_case(<<"git", "_", "fetch", "_", "with", "_", "cli">>),
           value |-> [type |-> "bool",
                      text |-> <<IF config.net.git_fetch_with_cli THEN "true"
                                 ELSE "false">>]]}
    \cup {[table |-> << <<"build">> >>,
           key |-> <<"target">>,
           value |-> [type |-> "string", text |-> config.build.target]]}

\* generate_config asking for small binaries whatever `optimized` is.
generate_config_always_strips(opt) ==
    LET target == Some([wasm32_unknown_unknown |->
                           [rustflags |-> <<"-C", "link-arg=-s">>]])
        config == [target |-> target,
                   net |-> [git_fetch_with_cli |-> TRUE],
                   build |-> [target |-> <<"wasm32", "-", "unknown", "-", "unknown">>]]
    IN  File_new(<<".", "cargo", "/", "config", ".", "toml">>, to_vec(config))

generate_config(opt) ==
    LET target == IF opt
                  THEN Some([wasm32_unknown_unknown |->
                                [rustflags |-> <<"-C", "link-arg=-s">>]])
                  ELSE Nothing
        config == [target |-> target,
                   net |-> [git_fetch_with_cli |-> TRUE],
                   build |-> [target |-> <<"wasm32", "-", "unknown", "-", "unknown">>]]
    IN  File_new(<<".", "cargo", "/", "config", ".", "toml">>, to_vec(config))

\* The inputs of the emitters.
MaxProcBlocks == 2

ManifestPaths ==
    { Path_new(<<"hotg-ai", "/", "rune">>, Some(<<"proc_blocks", "/", "modulo">>),
               Nothing),
      Path_new(<<".", "/", "my_proc_block">>, Nothing, Nothing),
      Path_new(<<"whatever">>, Nothing, Some(<<"1", ".", "2">>)),
      Path_new(<<"owner", "/", "repo">>, Nothing, Nothing),
      Path_new(<<"hotg-extra">>, Nothing, Some(<<"1", ".", "2">>)),
      Path_new(<<"log">>, Nothing, Some(<<"1", ".", "2">>)) }

BuildNames == { <<"foo">>, <<"sine">> }

RepoDirs == {Nothing, Some(<<"/", "tmp", "/", "rune">>)}

\* generate_cargo_toml::run
generate_cargo_toml_run ==
    /\ cargoToml = Nothing
    /\ LET manifest == generate_manifest(proc_blocks, ctx_name, current_dir)
       IN  cargoToml' =
               Some(File_new(<<"Cargo", ".", "toml">>,
                             IF is_some(rune_repo_dir)
                             THEN patch_hotg_dependencies(unwrap(rune_repo_dir),
                                                          manifest)
                             ELSE manifest))
    /\ UNCHANGED <<proc_blocks, ctx_name, optimized, rune_repo_dir, cargoConfig,
                   nonGenVars>>

\* generate_cargo_config::run
generate_cargo_config_run ==
    /\ cargoConfig = Nothing
    /\ cargoConfig' = Some(generate_config(optimized))
    /\ UNCHANGED <<proc_blocks, ctx_name, optimized, rune_repo_dir, cargoToml,
                   nonGenVars>>

(***************************************************************************)
(* Cycle detection (type checker): a depth-first search along the declared *)
(* inputs, started from each stage in the order of the names.  A stage on  *)
(* the search's stack is gray, a stage whose search has finished is black. *)
(***************************************************************************)
\* The number of stages of the pipeline.
NumCycleStages == 3

CycleStages == 1..NumCycleStages

RECURSIVE dfs_visit(_, _, _, _)
RECURSIVE dfs_inputs(_, _, _, _, _)
\* Visit `node` with the gray stages `stack`: meeting a gray stage closes a
\* cycle, the part of the stack from that stage on.
dfs_visit(inputs, node, stack, black) ==
    IF \E i \in DOMAIN stack : stack[i] = node
    THEN LET i == CHOOSE i \in DOMAIN stack : stack[i] = node
         IN  [cycle |-> Some(SubSeq(stack, i, Len(stack))), black |-> black]
    ELSE IF node \in black
    THEN [cycle |-> Nothing, black |-> black]
    ELSE LET r == dfs_inputs(inputs, node, 1, Append(stack, node), black)
         IN  IF is_some(r.cycle)
             THEN r
             ELSE [cycle |-> Nothing, black |-> r.black \cup {node}]

\* Visit the inputs of `node` from the i-th on, in their declared order.
dfs_inputs(inputs, node, i, stack, black) ==
    IF i > Len(inputs[node])
    THEN [cycle |-> Nothing, black |-> black]
    ELSE LET r == dfs_visit(inputs, inputs[node][i], stack, black)
         IN  IF is_some(r.cycle)
             THEN r
             ELSE dfs_inputs(inputs, node, i + 1, stack, r.black)

RECURSIVE next_cycle_from_first_stage_only(_, _, _)
\* next_cycle searching from the first stage only.
next_cycle_from_first_stage_only(inputs, start, black) ==
    IF start > 1
    THEN Nothing
    ELSE LET r == dfs_visit(inputs, start, <<>>, black)
         IN  IF is_some(r.cycle)
             THEN r.cycle
             ELSE next_cycle_from_first_stage_only(inputs, start + 1, r.black)

RECURSIVE next_cycle(_, _, _)
\* The first cycle the searches from the stages start, start + 1, .. find.
next_cycle(inputs, start, black) ==
    IF start > Len(inputs)
    THEN Nothing
    ELSE LET r == dfs_visit(inputs, start, <<>>, black)
         IN  IF is_some(r.cycle)
             THEN r.cycle
             ELSE next_cycle(inputs, start + 1, r.black)

\* The one error naming the cycle: its notes list the members after the
\* first in traversal order, the last note closing the cycle.
cycle_detected_diagnostic(cycle) ==
    [severity |-> "Error",
     message |-> [text |-> "Cycle detected when checking", stage |-> cycle[1]],
     notes |-> [i \in 1..Len(cycle) |->
                  IF i < Len(cycle)
                  THEN [text |-> "... which receives input from",
                        stage |-> cycle[i + 1], completing |-> FALSE]
                  ELSE [text |-> "... which receives input from",
                        stage |-> cycle[1], completing |-> TRUE]]]

RECURSIVE Ascending(_)
\* The stages of S as a list in ascending order.
Ascending(S) ==
    IF S = {}
    THEN <<>>
    ELSE LET m == CHOOSE x \in S : \A y \in S : x <= y
         IN  <<m>> \o Ascending(S \ {m})

Reversed(s) == [i \in 1..Len(s) |-> s[Len(s) + 1 - i]]

\* The Inputs of the stages: every stage lists any set of stages, all lists
\* in ascending or all in descending order.
CyclePipelines ==
    [CycleStages -> {Ascending(S) : S \in SUBSET CycleStages}]
        \cup [CycleStages -> {Reversed(Ascending(S)) : S \in SUBSET CycleStages}]

\* The cycle check of the type-check phase.
check_for_loops ==
    /\ cyStep = "input"
    /\ LET cycle == next_cycle(cyInputs, 1, {})
       IN  cyDiags' = IF is_some(cycle)
                      THEN Append(cyDiags, cycle_detected_diagnostic(unwrap(cycle)))
                      ELSE cyDiags
    /\ cyStep' = "checked"
    /\ UNCHANGED <<cyInputs, nonCycleVars>>

(***************************************************************************)
(* The emitted lib.rs and the guards of runic-types.                       *)
(*                                                                         *)
(* The host calls the exports one at a time.  A panic inside an export is  *)
(* a trap: the call does not return, and what the call had stored before   *)
(* the panic stays.  rtTrace records, for every call the host made, the    *)
(* function, its arguments, PIPELINE before and after, the value returned  *)
(* (Option: none for a trap), the panic message, how often the stored      *)
(* closure ran and whether PIPELINE was assigned.                          *)
(***************************************************************************)
\* generate(): the preamble's static and the two #[no_mangle] functions.
generate ==
    [statics |-> {"PIPELINE"}, exports |-> {"_manifest", "_call"}]

\* log::set_logger(&LOGGER): Err(SetLoggerError) when a logger is installed.
set_logger(l) ==
    IF is_some(l)
    THEN [ok |-> FALSE, logger |-> l]
    ELSE [ok |-> TRUE, logger |-> Some("LOGGER")]

\* A SetupGuard whose constructor drops the result of set_logger.
SetupGuard_new_ignores_set_logger(l) ==
    [panic |-> "", logger |-> set_logger(l).logger]

\* SetupGuard::new: log::set_logger(&LOGGER).unwrap()
SetupGuard_new(l) ==
    LET r == set_logger(l)
    IN  IF r.ok
        THEN [panic |-> "", logger |-> r.logger]
        ELSE [panic |-> "SetLoggerError", logger |-> r.logger]

\* PipelineGuard::new: only a Region is created.
PipelineGuard_new(l) == [panic |-> "", logger |-> l]

\* A _manifest that returns 1 without storing the closure.
manifest_without_store(P, l) ==
    LET setup == SetupGuard_new(l)
    IN  IF setup.panic # ""
        THEN [PIPELINE |-> P, logger |-> setup.logger, returned |-> Nothing,
              panic |-> setup.panic, runs |-> 0, assigned |-> FALSE]
        ELSE [PIPELINE |-> P, logger |-> setup.logger,
              returned |-> Some(1), panic |-> "", runs |-> 0,
              assigned |-> FALSE]

\* _manifest(): SetupGuard::default(), then PIPELINE = Some(Box::new(pipeline)),
\* then 1.
manifest(P, l) ==
    LET setup == SetupGuard_new(l)
    IN  IF setup.panic # ""
        THEN [PIPELINE |-> P, logger |-> setup.logger, returned |-> Nothing,
              panic |-> setup.panic, runs |-> 0, assigned |-> FALSE]
        ELSE [PIPELINE |-> Some("pipeline"), logger |-> setup.logger,
              returned |-> Some(1), panic |-> "", runs |-> 0,
              assigned |-> TRUE]

\* A _call that answers -1 while PIPELINE is None.
call_returns_error_code(P, l) ==
    IF ~is_some(P)
    THEN [PIPELINE |-> P, logger |-> l, returned |-> Some(-1), panic |-> "",
          runs |-> 0, assigned |-> FALSE]
    ELSE [PIPELINE |-> P, logger |-> PipelineGuard_new(l).logger,
          returned |-> Some(0), panic |-> "", runs |-> 1, assigned |-> FALSE]

\* _call(_, _, _): PIPELINE.as_mut().expect(..), pipeline(), 0.  The closure
\* constructs a PipelineGuard.  The three arguments are not read.
call(P, l) ==
    IF ~is_some(P)
    THEN [PIPELINE |-> P, logger |-> l, returned |-> Nothing,
          panic |-> "The rune hasn't been initialized", runs |-> 0,
          assigned |-> FALSE]
    ELSE LET guard == PipelineGuard_new(l)
         IN  IF guard.panic # ""
             THEN [PIPELINE |-> P, logger |-> guard.logger,
                   returned |-> Nothing, panic |-> guard.panic, runs |-> 1,
                   assigned |-> FALSE]
             ELSE [PIPELINE |-> P, logger |-> guard.logger,
                   returned |-> Some(0), panic |-> "", runs |-> 1,
                   assigned |-> FALSE]

\* The i32 values the host passes: i32::MIN and i32::MAX.
I32Samples == {-2147483647 - 1, 2147483647}

event(fn, args, out) ==
    [fn |-> fn, args |-> args, before |-> PIPELINE, after |-> out.PIPELINE,
     returned |-> out.returned, panic |-> out.panic, runs |-> out.runs,
     assigned |-> out.assigned]

\* The host calls the export _manifest.
Call_manifest ==
    /\ Len(rtTrace) < MaxCalls
    /\ "_manifest" \in generate.exports
    /\ LET out == manifest(PIPELINE, logger)
       IN  /\ PIPELINE' = out.PIPELINE
           /\ logger' = out.logger
           /\ rtTrace' = Append(rtTrace, event("_manifest", <<>>, out))
    /\ UNCHANGED nonRuntimeVars

\* The host calls the export _call.
Call_call ==
    /\ Len(rtTrace) < MaxCalls
    /\ "_call" \in generate.exports
    /\ \E _capability_type, _input_type, _capability_idx \in I32Samples :
         LET out == call(PIPELINE, logger)
         IN  /\ PIPELINE' = out.PIPELINE
             /\ logger' = out.logger
             /\ rtTrace' = Append(rtTrace,
                    event("_call",
                          <<_capability_type, _input_type, _capability_idx>>,
                          out))
    /\ UNCHANGED nonRuntimeVars

(***************************************************************************)
(* The analyser of syntax/src/yaml.rs: Context::register_names and         *)
(* Context::register_stages.                                               *)
(*                                                                         *)
(* A stage name is a number: 0 is the empty string, and the names          *)
(* 1..NumStageNames stand for their rank in the lexicographic order.  A    *)
(* Value is the record of its variant (kind), its text (Int, Float,        *)
(* String) and its items (List).  A Stage is the record of its variant,    *)
(* of the string of its discriminating key (target) and of its args, which *)
(* hold at most the one key "arg" (Option: its Value).  A HashMap is a     *)
(* function from its keys; the order in which it yields its entries is an  *)
(* input, the same for every loop over the same map.                       *)
(***************************************************************************)
AnNames == 0..NumStageNames

Value_Int(t) == [kind |-> "Int", text |-> t, items |-> <<>>]

Value_Float(t) == [kind |-> "Float", text |-> t, items |-> <<>>]

Value_String(t) == [kind |-> "String", text |-> t, items |-> <<>>]

Value_List(items) == [kind |-> "List", text |-> "", items |-> items]

\* ArgumentValue::Literal(Literal::new(v, Span::new(0, 0)))
Literal(kind, t) == [kind |-> "Literal", literal |-> kind, text |-> t, items |-> <<>>]

\* ArgumentValue::List(items)
ArgumentValue_List(items) ==
    [kind |-> "List", literal |-> "", text |-> "", items |-> items]

Finished(v) == [panic |-> "", value |-> v]

Panicked(msg, v) == [panic |-> msg, value |-> v]

\* impl From<Value> for ArgumentValue: a scalar becomes a Literal; the items
\* of a list are pushed while they are strings, and the first item that is
\* not reaches unimplemented!().
into(v) ==
    CASE v.kind = "Int" -> Finished(Literal("Int", v.text))
      [] v.kind = "Float" -> Finished(Literal("Float", v.text))
      [] v.kind = "String" -> Finished(Literal("String", v.text))
      [] v.kind = "List" ->
           IF \A i \in DOMAIN v.items : v.items[i].kind = "String"
           THEN Finished(ArgumentValue_List(
                    [i \in DOMAIN v.items |-> v.items[i].text]))
           ELSE Panicked("not implemented", ArgumentValue_List(<<>>))

\* to_parameters(yaml): every value of the map converted with into().
to_parameters(args) ==
    IF ~is_some(args)
    THEN Finished(Nothing)
    ELSE LET a == into(unwrap(args))
         IN  IF a.panic # "" THEN Panicked(a.panic, Nothing)
             ELSE Finished(Some(a.value))

\* The match of register_stages: the hir::Stage of a yaml Stage.  Only
\* ProcBlock and Capability lower their args.
hir_Stage(stage) ==
    CASE stage.kind = "Model" ->
           Finished([kind |-> "Model", target |-> stage.target,
                     parameters |-> Nothing])
      [] stage.kind = "ProcBlock" ->
           LET ps == to_parameters(stage.args)
           IN  [panic |-> ps.panic,
                value |-> [kind |-> "ProcBlock", target |-> stage.target,
                           parameters |-> ps.value]]
      [] stage.kind = "Capability" ->
           LET ps == to_parameters(stage.args)
           IN  [panic |-> ps.panic,
                value |-> [kind |-> "Source", target |-> stage.target,
                           parameters |-> ps.value]]
      [] stage.kind = "Out" ->
           Finished([kind |-> "Sink", target |-> stage.target,
                     parameters |-> Nothing])

\* The types Builtins holds an identifier for.
BuiltinTypes == <<"u8", "i16", "f32">>

\* HirIds::new(): no identifier allocated yet (0 is HirId::ERROR).
HirIds_new == 0

\* HirIds::next(): the identifier after the last one allocated.
HirIds_next(ids) == ids + 1

\* Builtins::new(&mut ids): one fresh identifier per built-in type.
Builtins_new(ids) ==
    [builtins |-> [i \in DOMAIN BuiltinTypes |-> ids + i],
     ids |-> ids + Len(BuiltinTypes)]

\* Context::default()
Context_default ==
    LET b == Builtins_new(HirIds_new)
    IN  [diags |-> <<>>, ids |-> b.ids, builtins |-> b.builtins,
         names |-> <<>>, graph |-> <<>>, hir_id_to_node_index |-> <<>>]

\* NameTable::register(name, id)
NameTable_register(names, name, id) == insert(names, name, id)

RECURSIVE register_names_one_id(_, _, _)
\* A register_names that allocates one identifier and gives it to every name.
register_names_one_id(order, i, c) ==
    IF i > Len(order)
    THEN c
    ELSE register_names_one_id(order, i + 1,
             [c EXCEPT !.ids = IF i = 1 THEN HirIds_next(@) ELSE @,
                       !.names = NameTable_register(@, order[i],
                                     IF i = 1 THEN HirIds_next(c.ids)
                                     ELSE c.ids)])

RECURSIVE register_names(_, _, _)
\* register_names: for (name, _step) in pipeline { id = ids.next();
\* names.register(name, id) }, from the i-th entry the map yields on.
register_names(order, i, c) ==
    IF i > Len(order)
    THEN c
    ELSE LET id == HirIds_next(c.ids)
         IN  register_names(order, i + 1,
                 [c EXCEPT !.ids = id,
                           !.names = NameTable_register(@, order[i], id)])

RECURSIVE register_stages(_, _, _, _)
\* register_stages: for (name, stage) in pipeline { node = match stage {..};
\* node_index = graph.add_node(node); add_hir_id_and_node_index(id,
\* node_index) }, from the i-th entry on.  A panic ends the loop with what
\* the earlier entries stored.
register_stages(order, pipeline, i, c) ==
    IF i > Len(order)
    THEN Finished(c)
    ELSE LET name == order[i]
             id == c.names[name]
             node == hir_Stage(pipeline[name])
             node_index == Len(c.graph)
         IN  IF node.panic # ""
             THEN Panicked(node.panic, c)
             ELSE register_stages(order, pipeline, i + 1,
                      [c EXCEPT !.graph = Append(@, node.value),
                                !.hir_id_to_node_index =
                                    insert(@, id, node_index)])

\* The stages of the pipelines analysed.
AnStages ==
    { [kind |-> "Model", target |-> "./model.tflite", args |-> Nothing],
      [kind |-> "ProcBlock", target |-> "hotg-ai/rune#proc_blocks/ohv_label",
       args |-> Some(Value_List(<<Value_String("silence"),
                                  Value_String("unknown")>>))],
      [kind |-> "ProcBlock", target |-> "hotg-ai/rune#proc_blocks/ohv_label",
       args |-> Some(Value_List(<<Value_String("silence"), Value_Int("1")>>))],
      [kind |-> "ProcBlock", target |-> "hotg-ai/rune#proc_blocks/ohv_label",
       args |-> Some(Value_List(<<Value_Float("0.5"),
                                  Value_List(<<Value_String("up")>>)>>))],
      [kind |-> "Capability", target |-> "SOUND",
       args |-> Some(Value_Int("16000"))],
      [kind |-> "Out", target |-> "SERIAL", args |-> Nothing] }

\* The pipelines analysed: every map from some of the names to the stages.
AnPipelines == UNION {[D -> AnStages] : D \in SUBSET AnNames}

\* ctx.register_names(&doc.pipeline) on Context::default()
RegisterNames ==
    /\ anStep = "input"
    /\ anCtx' = register_names(anOrder, 1, anCtx)
    /\ anStep' = "named"
    /\ UNCHANGED <<anPanic, anPipeline, anOrder, nonAnalyseVars>>

\* ctx.register_stages(&doc.pipeline)
RegisterStages ==
    /\ anStep = "named"
    /\ LET r == register_stages(anOrder, anPipeline, 1, anCtx)
       IN  /\ anCtx' = r.value
           /\ IF r.panic # ""
              THEN /\ anStep' = "aborted"
                   /\ anPanic' = Some(<<"register_stages", r.panic>>)
              ELSE /\ anStep' = "staged"
                   /\ anPanic' = anPanic
    /\ UNCHANGED <<anPipeline, anOrder, nonAnalyseVars>>

\* ctx.construct_pipeline(&doc.pipeline): todo!()
ConstructPipeline ==
    /\ anStep = "staged"
    /\ anStep' = "aborted"
    /\ anPanic' = Some(<<"construct_pipeline", "not yet implemented">>)
    /\ UNCHANGED <<anCtx, anPipeline, anOrder, nonAnalyseVars>>

(***************************************************************************)
(* The proc block audio_float_conversion.                                  *)
(*                                                                         *)
(* An f32 is the record of the numerator and the denominator of the        *)
(* division that produced it (every i16 is an f32 exactly, and two samples *)
(* that differ give quotients by 32767 that differ as f32); 0.0 is 0 / 1.  *)
(* A Tensor is the record of its dimensions and its elements.              *)
(***************************************************************************)
\* const I16_MAX_AS_FLOAT: f32 = i16::MAX as f32
I16_MAX_AS_FLOAT == 32767

\* The length of recorded_vec: [f32; 5]
RECORDED_VEC_LEN == 5

F32_ZERO == [num |-> 0, den |-> 1]

\* *i16_input as f32 / self.i16_max_as_float
f32_div(x, y) == IF x = 0 THEN F32_ZERO ELSE [num |-> x, den |-> y]

\* transform_inner: recorded_vec[i] = .. for every (i, x) of the input; the
\* index is checked against the array's length, so the sixth sample panics.
transform_inner(input) ==
    LET recorded_vec ==
            [i \in 1..RECORDED_VEC_LEN |->
                IF i <= Len(input)
                THEN f32_div(input[i], I16_MAX_AS_FLOAT)
                ELSE F32_ZERO]
    IN  IF Len(input) > RECORDED_VEC_LEN
        THEN Panicked("index out of bounds: the len is 5 but the index is 5",
                      recorded_vec)
        ELSE Finished(recorded_vec)

\* Tensor::new_vector(elements)
Tensor_new_vector(elements) ==
    [dimensions |-> <<Len(elements)>>, elements |-> elements]

\* Transform::transform(input)
transform(input) ==
    LET aud_float == transform_inner(input.elements)
    IN  IF aud_float.panic # ""
        THEN Panicked(aud_float.panic, Nothing)
        ELSE Finished(Some(Tensor_new_vector(aud_float.value)))

\* The i16 samples of the inputs: i16::MIN, 0 and i16::MAX.
I16Samples == {-32768, 0, 32767}

\* pb.transform(input)
AudioTransform ==
    /\ afStep = "input"
    /\ LET r == transform(Tensor_new_vector(afInput))
       IN  /\ afOutput' = r.value
           /\ afStep' = IF r.panic # "" THEN "panicked" ELSE "returned"
    /\ UNCHANGED <<afInput, nonAudioVars>>

(***************************************************************************)
(* Properties of Path.                                                     *)
(***************************************************************************)
\* The strings of the grammar base(@version)?(#sub_path)? whose parts are
\* those of p.
MatchesGrammar(s, p) ==
    /\ p.base # <<>> /\ \A i \in DOMAIN p.base : IsBaseChar(p.base[i])
    /\ is_some(p.version) =>
          /\ unwrap(p.version) # <<>>
          /\ \A i \in DOMAIN unwrap(p.version) : IsVersionChar(unwrap(p.version)[i])
    /\ is_some(p.sub_path) =>
          /\ unwrap(p.sub_path) # <<>>
          /\ \A i \in DOMAIN unwrap(p.sub_path) : IsSubPathChar(unwrap(p.sub_path)[i])
    /\ s = p.base
             \o (IF is_some(p.version) THEN <<"@">> \o unwrap(p.version) ELSE <<>>)
             \o (IF is_some(p.sub_path) THEN <<"#">> \o unwrap(p.sub_path) ELSE <<>>)

\* C7 (as claimed): for every Path p the parser produces, parsing the string
\* Display renders for p gives p back.
C7_PathRoundTrip ==
    pathStep = "reparsed" => pathAgain = pathParsed

\* C9 (as claimed): Path::from_str succeeds only when the whole input matches
\* base(@version)?(#sub_path)?, and then base, version and sub_path are the
\* corresponding substrings of the input.
C9_ParseIsTotalOrRejected ==
    (pathStep # "input" /\ unwrap(pathParsed).ok) =>
        MatchesGrammar(pathInput, unwrap(pathParsed).path)

(***************************************************************************)
(* Properties of Document.                                                 *)
(***************************************************************************)
\* C8 (as claimed): for every Document d the parser produces, serializing d
\* and parsing the result again gives a Document equal to d.
C8_DocumentRoundTrip ==
    docStep = "reparsed" => docAgain = docParsed

\* The variants of Stage whose discriminating key the body y carries, in the
\* order model, proc-block, capability, out.
Discriminators(y) ==
    SelectSeq(<<"Model", "ProcBlock", "Capability", "Out">>,
              LAMBDA k : CASE k = "Model" -> y.model # Nothing
                           [] k = "ProcBlock" -> y.proc_block # Nothing
                           [] k = "Capability" -> y.capability # Nothing
                           [] k = "Out" -> y.out # Nothing)

\* C20 (as claimed): a stage body is classified by the first variant whose
\* discriminating key is present, and a body carrying an unknown key, a key
\* of another variant or the discriminating keys of two variants is rejected
\* by the parser.
C20_StageKeysDecideTheVariant ==
    (docStep # "input" /\ docYaml.pipeline # Nothing) =>
        \A e \in unwrap(docYaml.pipeline) :
            /\ (\/ e.body.other
                \/ Len(Discriminators(e.body)) >= 2
                \/ (Discriminators(e.body) = <<"Capability">>
                      /\ e.body.inputs # Nothing))
               => ~unwrap(docParsed).ok
            /\ unwrap(docParsed).ok =>
                  \A d \in unwrap(docParsed).value.pipeline :
                     d.name = e.name => d.stage.kind = Discriminators(e.body)[1]

\* C21 (as claimed): a runefile is accepted only if image and pipeline are
\* both present and it has no other top-level key; a document with another
\* top-level key such as version is rejected.
C21_OnlyImageAndPipelineAccepted ==
    (docStep # "input" /\ unwrap(docParsed).ok) =>
        /\ docYaml.image # Nothing
        /\ docYaml.pipeline # Nothing
        /\ ~docYaml.version

\* C21 (amended): a runefile missing image or pipeline is rejected, and any
\* other top-level key is skipped: the outcome is that of the same document
\* without the key.
C21_UnknownTopLevelKeysSkipped ==
    docStep # "input" =>
        /\ (docYaml.image = Nothing \/ docYaml.pipeline = Nothing)
              => ~unwrap(docParsed).ok
        /\ docParsed = Some(Document_parse([docYaml EXCEPT !.version = FALSE]))

C21_Witness ==
    /\ docStep # "input"
    /\ docYaml.version
    /\ unwrap(docParsed).ok
    /\ unwrap(docParsed).value.pipeline # {}

(***************************************************************************)
(* Properties of the dependency resolver.                                  *)
(***************************************************************************)
\* C10 (as claimed): for every Path whose base is hotg-ai/rune the resolver
\* returns git = REPO and tag = "v" followed by CORE_VERSION, with no
\* version, no path, no branch and no rev.
C10_BuiltinUsesCoreVersionTag ==
    (depStep = "resolved" /\ depPath.base = <<"hotg-ai", "/", "rune">>) =>
        LET dep == unwrap(depResult)
        IN  /\ dep.git = Some(REPO)
            /\ dep.tag = Some(<<"v">> \o CORE_VERSION)
            /\ dep.version = Nothing
            /\ dep.path = Nothing
            /\ dep.branch = Nothing
            /\ dep.rev = Nothing

\* The fields of a DependencyDetail that hold an optional string.
StringFields ==
    {"version", "registry", "registry_index", "path", "git", "branch", "tag",
     "rev", "package"}

\* The path falls through to the last rule of the resolver: it is not
\* built-in, not local and not a registry path.
IsGitFallbackPath(path) ==
    /\ path.base # <<"hotg-ai", "/", "rune">>
    /\ ~(path.base # <<>> /\ path.base[1] = ".")
    /\ ~(/\ path.sub_path = Nothing
         /\ \A i \in DOMAIN path.base : path.base[i] # "/"
         /\ path.version # Nothing)

\* The path satisfies every condition of the registry rule.
IsRegistryPath(path) ==
    /\ path.sub_path = Nothing
    /\ \A i \in DOMAIN path.base : path.base[i] # "/"
    /\ ~(path.base # <<>> /\ path.base[1] = ".")
    /\ path.version # Nothing

\* C11 (as claimed): for every Path that is not built-in, not local and not a
\* registry path the resolver returns git = https://github.com/{base}.git,
\* tag = the path's version when there is one, and the path's sub_path, when
\* there is one, as the sub-directory held by the descriptor.
C11_GitFallbackKeepsVersionAndSubPath ==
    (depStep = "resolved" /\ IsGitFallbackPath(depPath)) =>
        LET dep == unwrap(depResult)
        IN  /\ dep.git = Some(<<"https", ":", "/", "/", "github", ".", "com", "/">>
                                \o depPath.base \o <<".", "git">>)
            /\ depPath.version # Nothing => dep.tag = depPath.version
            /\ depPath.sub_path # Nothing =>
                  \E f \in StringFields : dep[f] = depPath.sub_path

\* C12: a Path with no sub_path, a base without '/' that does not start with
\* '.', and a version resolves to a descriptor with that version and no git,
\* tag or path; a Path missing one of these conditions never resolves to a
\* registry entry (a version with neither git nor path).
C12_RegistryResolution ==
    depStep = "resolved" =>
        LET dep == unwrap(depResult)
        IN  /\ IsRegistryPath(depPath) =>
                  /\ dep.version = depPath.version
                  /\ dep.git = Nothing
                  /\ dep.tag = Nothing
                  /\ dep.path = Nothing
            /\ ~IsRegistryPath(depPath) =>
                  ~(dep.version # Nothing /\ dep.git = Nothing /\ dep.path = Nothing)

C12_Witness ==
    /\ depStep = "resolved"
    /\ depPath = Path_new(<<"whatever">>, Nothing, Some(<<"1", ".", "2">>))
    /\ unwrap(depResult).version = Some(<<"1", ".", "2">>)

\* C13: a Path whose base starts with '.' resolves to a descriptor whose path
\* is current_directory joined with base, with no git, tag or version,
\* whatever version or sub_path the Path carries.
C13_LocalResolution ==
    (depStep = "resolved" /\ depPath.base # <<>> /\ depPath.base[1] = ".") =>
        LET dep == unwrap(depResult)
        IN  /\ dep.path = Some(current_dir \o <<"/">> \o depPath.base)
            /\ dep.git = Nothing
            /\ dep.tag = Nothing
            /\ dep.version = Nothing

C13_Witness ==
    /\ depStep = "resolved"
    /\ depPath = Path_new(<<".", "local_block">>, Nothing, Some(<<"1", ".", "2">>))
    /\ current_dir = <<"/", "home", "/", "rune">>
    /\ unwrap(depResult).path =
          Some(<<"/", "home", "/", "rune", "/", ".", "local_block">>)

(***************************************************************************)
(* Properties of the codegen emitters.                                     *)
(***************************************************************************)
\* The first-party crates every manifest depends on.
HotgBaseCrates ==
    { <<"hotg-rune-core">>, <<"hotg-rune-proc-blocks">>,
      <<"hotg-runicos-base-wasm">> }

BaseNames == { <<"log">>, <<"lazy_static">> } \cup HotgBaseCrates

\* dep is a local-path entry whose path lies under the directory D.
IsLocalPathUnder(dep, D) ==
    IF dep.kind = "Detailed"
    THEN /\ dep.detail.path # Nothing
         /\ IsPrefix(D \o <<"/">>, unwrap(dep.detail.path))
         /\ dep.detail.git = Nothing
         /\ dep.detail.tag = Nothing
         /\ dep.detail.version = Nothing
    ELSE FALSE

\* C14: with the override directory set to D the manifest has the tables
\* patch.crates-io and patch."https://github.com/hotg-ai/rune", each holding
\* local-path entries under D for hotg-rune-core, hotg-rune-proc-blocks and
\* hotg-runicos-base-wasm; without an override directory the manifest has no
\* patch table at all.
C14_OverridePatchTables ==
    is_some(cargoToml) =>
        LET patch == unwrap(cargoToml).data.patch
        IN  IF is_some(rune_repo_dir)
            THEN /\ {<<"crates-io">>, REPO} \subseteq DOMAIN patch
                 /\ \A t \in {<<"crates-io">>, REPO} :
                      \A n \in HotgBaseCrates :
                         /\ n \in DOMAIN patch[t]
                         /\ IsLocalPathUnder(patch[t][n], unwrap(rune_repo_dir))
            ELSE DOMAIN patch = {}

C14_Witness ==
    /\ is_some(cargoToml)
    /\ rune_repo_dir = Some(<<"/", "tmp", "/", "rune">>)
    /\ proc_blocks # <<>>
    /\ unwrap(cargoToml).data.patch[<<"crates-io">>][<<"hotg-runicos-base-wasm">>]
          = [kind |-> "Detailed",
             detail |-> [empty_dependency_detail EXCEPT
                           !.path = Some(<<"/", "tmp", "/", "rune", "/", "images",
                                           "/", "runicos-base", "/", "wasm">>)]]

\* C15: with the override directory set, a dependency of the manifest has a
\* patch entry exactly when its name starts with "hotg-" or its git URL is
\* the canonical repository; every such entry is a local path under the
\* override directory, and both patch tables hold the same entries.
C15_PatchExactlyFirstParty ==
    (is_some(cargoToml) /\ is_some(rune_repo_dir)) =>
        LET m == unwrap(cargoToml).data
            deps == m.dependencies
            FirstParty ==
                {n \in DOMAIN deps :
                    \/ n[1] \in HotgWords
                    \/ IF deps[n].kind = "Detailed"
                       THEN deps[n].detail.git = Some(REPO)
                       ELSE FALSE}
        IN  /\ \A t \in {<<"crates-io">>, REPO} :
                 /\ DOMAIN m.patch[t] = FirstParty
                 /\ \A n \in FirstParty :
                      IsLocalPathUnder(m.patch[t][n], unwrap(rune_repo_dir))
            /\ m.patch[<<"crates-io">>] = m.patch[REPO]

C15_Witness ==
    /\ is_some(cargoToml)
    /\ is_some(rune_repo_dir)
    /\ <<"modulo">> \in DOMAIN unwrap(cargoToml).data.patch[REPO]
    /\ <<"whatever">> \in DOMAIN unwrap(cargoToml).data.dependencies
    /\ <<"whatever">> \notin DOMAIN unwrap(cargoToml).data.patch[REPO]

\* C16: generate_config(optimized) emits .cargo/config.toml, holding
\* [build] target = "wasm32-unknown-unknown", [net] git-fetch-with-cli = true
\* and, if and only if optimized is true, [target.wasm32-unknown-unknown]
\* rustflags = ["-C", "link-arg=-s"], and nothing else.
C16_CargoConfigContents ==
    is_some(cargoConfig) =>
        LET build == [table |-> << <<"build">> >>,
                      key |-> <<"target">>,
                      value |-> [type |-> "string",
                                 text |-> <<"wasm32", "-", "unknown", "-", "unknown">>]]
            net == [table |-> << <<"net">> >>,
                    key |-> <<"git", "-", "fetch", "-", "with", "-", "cli">>,
                    value |-> [type |-> "bool", text |-> <<"true">>]]
            target == [table |-> << <<"target">>,
                                    <<"wasm32", "-", "unknown", "-", "unknown">> >>,
                       key |-> <<"rustflags">>,
                       value |-> [type |-> "array",
                                  text |-> <<"-C", "link-arg=-s">>]]
        IN  /\ unwrap(cargoConfig).path = <<".", "cargo", "/", "config", ".", "toml">>
            /\ unwrap(cargoConfig).data =
                  IF optimized THEN {build, net, target} ELSE {build, net}

C16_Witness ==
    /\ is_some(cargoConfig)
    /\ ~optimized
    /\ Cardinality(unwrap(cargoConfig).data) = 2

\* The base entries as the claim C17 states them.
ClaimedBaseEntry(n) ==
    CASE n = <<"log">> ->
           [kind |-> "Detailed",
            detail |-> [empty_dependency_detail EXCEPT
                          !.version = Some(<<"0", ".", "4">>),
                          !.features = <<"max_level_debug", "release_max_level_info">>]]
      [] n = <<"lazy_static">> ->
           [kind |-> "Detailed",
            detail |-> [empty_dependency_detail EXCEPT
                          !.version = Some(<<"1", ".", "0">>),
                          !.features = <<"spin_no_std">>]]
      [] OTHER -> [kind |-> "Simple", version |-> CORE_VERSION]

\* C17 (as claimed): the dependency table holds the five base entries, the
\* three hotg crates at the core version, plus one entry per declared proc
\* block: 5 + n entries for n proc blocks, the base entries unchanged.
C17_FiveBasePlusOnePerProcBlock ==
    is_some(cargoToml) =>
        LET deps == unwrap(cargoToml).data.dependencies
        IN  /\ BaseNames \subseteq DOMAIN deps
            /\ \A n \in BaseNames : deps[n] = ClaimedBaseEntry(n)
            /\ Cardinality(DOMAIN deps) = 5 + Len(proc_blocks)

\* C17 (amended): the table's keys are the five base names and the names of
\* the proc blocks; a base entry whose name no proc block has is log 0.4,
\* lazy_static 1.0, hotg-rune-core and hotg-runicos-base-wasm at
\* hotg_rune_core::VERSION and hotg-rune-proc-blocks at
\* hotg_rune_proc_blocks::VERSION; the entry of a proc-block name is the
\* descriptor of the last proc block with that name; the table has 5 entries
\* plus one per distinct proc-block name that is not a base name.
C17_BaseEntriesAndOnePerProcBlockName ==
    is_some(cargoToml) =>
        LET deps == unwrap(cargoToml).data.dependencies
            names == {ProcBlock_name(proc_blocks[i]) : i \in DOMAIN proc_blocks}
        IN  /\ DOMAIN deps = BaseNames \cup names
            /\ \A n \in BaseNames \ names :
                  deps[n] = IF n = <<"hotg-rune-proc-blocks">>
                            THEN [kind |-> "Simple", version |-> PROC_BLOCK_VERSION]
                            ELSE ClaimedBaseEntry(n)
            /\ \A i \in DOMAIN proc_blocks :
                  (\A j \in DOMAIN proc_blocks :
                      j > i => ProcBlock_name(proc_blocks[j])
                                 # ProcBlock_name(proc_blocks[i]))
                  => deps[ProcBlock_name(proc_blocks[i])] =
                        [kind |-> "Detailed",
                         detail |-> proc_block_dependency(proc_blocks[i], current_dir)]
            /\ Cardinality(DOMAIN deps) = 5 + Cardinality(names \ BaseNames)

C17_Witness ==
    /\ is_some(cargoToml)
    /\ Len(proc_blocks) = 2
    /\ proc_blocks[1] = proc_blocks[2]
    /\ CORE_VERSION # PROC_BLOCK_VERSION
    /\ Cardinality(DOMAIN unwrap(cargoToml).data.dependencies) = 6

\* The tables of a manifest other than package, lib, workspace and
\* dependencies.
OtherTables ==
    {"dev_dependencies", "build_dependencies", "target", "features", "patch",
     "profile", "badges", "bin", "bench", "test", "example"}

\* C18: the manifest's package has the build's name, version 0.0.0,
\* publish = false, edition 2018 and resolver 2; its library target has crate
\* type cdylib and path lib.rs; it declares its own workspace with members
\* ["."]; without an override directory it has no table besides these and
\* the dependencies.
C18_ManifestPackage ==
    is_some(cargoToml) =>
        LET m == unwrap(cargoToml).data
        IN  /\ is_some(m.package)
            /\ unwrap(m.package).name = ctx_name
            /\ unwrap(m.package).version = <<"0", ".", "0", ".", "0">>
            /\ unwrap(m.package).publish = FALSE
            /\ unwrap(m.package).edition = "2018"
            /\ unwrap(m.package).resolver = <<"2">>
            /\ is_some(m.lib)
            /\ unwrap(m.lib).crate_type = << << <<"cdylib">> >> >>
            /\ unwrap(m.lib).path = << <<"lib", ".", "rs">> >>
            /\ is_some(m.workspace)
            /\ unwrap(m.workspace).members = << <<".">> >>
            /\ ~is_some(rune_repo_dir) => \A f \in OtherTables : m[f] = <<>>

C18_Witness ==
    /\ is_some(cargoToml)
    /\ ~is_some(rune_repo_dir)
    /\ proc_blocks # <<>>
    /\ ctx_name = <<"sine">>
    /\ unwrap(unwrap(cargoToml).data.package).name = <<"sine">>

(***************************************************************************)
(* Properties of the cycle detection.                                      *)
(***************************************************************************)
\* Stage a lists stage b among its inputs.
ReceivesInputFrom(a, b) == \E i \in DOMAIN cyInputs[a] : cyInputs[a][i] = b

RECURSIVE TransitiveClosure(_, _)
TransitiveClosure(R, k) ==
    IF k = 0
    THEN R
    ELSE TransitiveClosure(
             R \cup {<<a, c>> \in CycleStages \X CycleStages :
                       \E b \in CycleStages : <<a, b>> \in R /\ <<b, c>> \in R},
             k - 1)

\* The declared inputs form a directed cycle.
HasDirectedCycle ==
    LET E == {<<a, b>> \in CycleStages \X CycleStages : ReceivesInputFrom(a, b)}
    IN  \E n \in CycleStages : <<n, n>> \in TransitiveClosure(E, NumCycleStages)

C23_IdentifiersIndependentOfIterationOrder ==
    anStep \in {"named", "staged", "aborted"} =>
        /\ \A o \in Orders(DOMAIN anPipeline) :
              register_names(o, 1, Context_default).names = anCtx.names
        /\ \A n, m \in DOMAIN anCtx.names :
              n < m => anCtx.names[n] < anCtx.names[m]

\* Did register_stages abort?
RegisterStagesAborted ==
    anPanic # Nothing /\ unwrap(anPanic)[1] = "register_stages"

\* Is a the args of a stage whose args are lowered, holding a list?
IsListArg(st) ==
    /\ st.kind \in {"ProcBlock", "Capability"}
    /\ st.args # Nothing
    /\ unwrap(st.args).kind = "List"

OnlyStrings(v) == \A i \in DOMAIN v.items : v.items[i].kind = "String"

\* The graph node register_stages stored for the stage named n, if any.
NodeOf(n) ==
    IF /\ n \in DOMAIN anCtx.names
       /\ anCtx.names[n] \in DOMAIN anCtx.hir_id_to_node_index
    THEN Some(anCtx.graph[anCtx.hir_id_to_node_index[anCtx.names[n]] + 1])
    ELSE Nothing

\* C24 (as claimed): lowering a list argument that holds an item that is not
\* a string yields a diagnostic and does not abort the analysis; a list of
\* strings is lowered to the list of those strings in the same order.
C24_NonStringListItemIsRecoverable ==
    anStep \in {"staged", "aborted"} =>
        \A n \in DOMAIN anPipeline :
            LET st == anPipeline[n]
            IN  IsListArg(st) =>
                  IF OnlyStrings(unwrap(st.args))
                  THEN NodeOf(n) # Nothing =>
                         unwrap(NodeOf(n)).parameters
                           = Some(ArgumentValue_List(
                               [i \in DOMAIN unwrap(st.args).items |->
                                  unwrap(st.args).items[i].text]))
                  ELSE /\ ~RegisterStagesAborted
                       /\ anCtx.diags # <<>>

\* C25 (as claimed): a pipeline holding a stage whose name is the empty
\* string makes register_names push a diagnostic, and the empty name is not
\* registered with an identifier.
C25_EmptyStageNameRejected ==
    (anStep \in {"named", "staged", "aborted"} /\ 0 \in DOMAIN anPipeline) =>
        /\ anCtx.diags # <<>>
        /\ 0 \notin DOMAIN anCtx.names

\* The kind of the hir::Stage of a yaml Stage.
HirKind(kind) ==
    CASE kind = "Model" -> "Model"
      [] kind = "ProcBlock" -> "ProcBlock"
      [] kind = "Capability" -> "Source"
      [] kind = "Out" -> "Sink"

\* C26: once register_names and register_stages have both returned, every
\* stage name of the pipeline is registered with an identifier, distinct
\* names have distinct identifiers, none of them a built-in's, every
\* identifier maps to one graph node of its own, that node holds the kind of
\* the stage, and the graph has as many nodes as the pipeline has stages.
C26_EveryStageRegisteredWithItsOwnNode ==
    (anStep = "staged" \/ (anStep = "aborted" /\ ~RegisterStagesAborted)) =>
        /\ DOMAIN anCtx.names = DOMAIN anPipeline
        /\ \A n, m \in DOMAIN anPipeline :
              n # m =>
                /\ anCtx.names[n] # anCtx.names[m]
                /\ anCtx.hir_id_to_node_index[anCtx.names[n]]
                     # anCtx.hir_id_to_node_index[anCtx.names[m]]
        /\ \A n \in DOMAIN anPipeline :
              /\ anCtx.names[n] \notin RangeOf(anCtx.builtins)
              /\ anCtx.names[n] \in DOMAIN anCtx.hir_id_to_node_index
              /\ anCtx.hir_id_to_node_index[anCtx.names[n]]
                    \in 0..(Len(anCtx.graph) - 1)
              /\ unwrap(NodeOf(n)).kind = HirKind(anPipeline[n].kind)
              /\ unwrap(NodeOf(n)).target = anPipeline[n].target
        /\ DOMAIN anCtx.hir_id_to_node_index
              = {anCtx.names[n] : n \in DOMAIN anPipeline}
        /\ Len(anCtx.graph) = Cardinality(DOMAIN anPipeline)

C26_Witness ==
    /\ anStep = "staged"
    /\ DOMAIN anPipeline = AnNames
    /\ \E n \in AnNames : anPipeline[n].kind = "Capability"
    /\ \E n \in AnNames : anPipeline[n].kind = "Out"
    /\ \E n \in AnNames : anPipeline[n].kind = "ProcBlock"
    /\ \E i \in DOMAIN anOrder : anOrder[i] # i - 1

(***************************************************************************)
(* Properties of audio_float_conversion.                                   *)
(***************************************************************************)
\* C30 (as claimed): for an input tensor of i16 samples of any length,
\* transform returns a tensor of dimensions [5] whose element i is the
\* quotient of input element i for every input position, the positions the
\* input does not cover being 0.
C30_TransformReturnsFiveElementsForAnyLength ==
    afStep # "input" =>
        /\ afStep = "returned"
        /\ afOutput # Nothing
        /\ unwrap(afOutput).dimensions = <<5>>
        /\ \A i \in DOMAIN afInput :
              /\ i \in DOMAIN unwrap(afOutput).elements
              /\ unwrap(afOutput).elements[i]
                    = f32_div(afInput[i], I16_MAX_AS_FLOAT)
        /\ \A i \in DOMAIN unwrap(afOutput).elements :
              i > Len(afInput) => unwrap(afOutput).elements[i] = F32_ZERO

(***************************************************************************)
(* Properties of the emitted lib.rs.                                       *)
(***************************************************************************)
\* Has a call to _manifest returned among the first n calls?
ManifestReturnedWithin(n) ==
    \E i \in 1..n :
        rtTrace[i].fn = "_manifest" /\ rtTrace[i].returned # Nothing

\* C22: lib.rs exports exactly _manifest and _call.  The first _manifest
\* returns, and a _manifest that returns has stored the pipeline closure in
\* PIPELINE and returns 1.  Once a _manifest has returned, every _call,
\* whatever its three arguments and however many came before, runs the
\* stored pipeline exactly once and returns 0.
C22_ManifestThenEveryCallRunsThePipelineOnce ==
    /\ generate.exports = {"_manifest", "_call"}
    /\ \A i \in DOMAIN rtTrace :
          LET e == rtTrace[i]
          IN  /\ (e.fn = "_manifest" /\ ~ManifestReturnedWithin(i - 1))
                    => e.returned # Nothing
              /\ (e.fn = "_manifest" /\ e.returned # Nothing)
                    => /\ e.returned = Some(1)
                       /\ e.assigned
                       /\ e.after = Some("pipeline")
              /\ (e.fn = "_call" /\ ManifestReturnedWithin(i - 1))
                    => /\ e.returned = Some(0)
                       /\ e.runs = 1
                       /\ e.after = Some("pipeline")

C22_Witness ==
    /\ Len(rtTrace) = 3
    /\ rtTrace[1].fn = "_manifest"
    /\ rtTrace[2].fn = "_call"
    /\ rtTrace[3].fn = "_call"
    /\ rtTrace[2].args # rtTrace[3].args
    /\ rtTrace[3].returned = Some(0)

\* C28: PIPELINE is None until the first _manifest has completed and is
\* never None afterwards.  A _call made while PIPELINE is None runs no
\* pipeline and does not return: it aborts with the message "The rune
\* hasn't been initialized".
C28_PipelineNoneOnlyBeforeManifest ==
    /\ (PIPELINE = Nothing) <=> ~ManifestReturnedWithin(Len(rtTrace))
    /\ \A i \in DOMAIN rtTrace :
          LET e == rtTrace[i]
          IN  /\ (e.before = Nothing) <=> ~ManifestReturnedWithin(i - 1)
              /\ e.before # Nothing => e.after # Nothing
              /\ (e.fn = "_call" /\ e.before = Nothing)
                    => /\ e.runs = 0
                       /\ e.returned = Nothing
                       /\ e.panic = "The rune hasn't been initialized"
                       /\ e.after = Nothing

C28_Witness ==
    /\ Len(rtTrace) = 3
    /\ rtTrace[1].fn = "_call"
    /\ rtTrace[1].returned = Nothing
    /\ rtTrace[2].fn = "_manifest"
    /\ rtTrace[3].fn = "_call"
    /\ PIPELINE # Nothing

\* C29: SetupGuard::new installs the global logger and fails when one is
\* installed already, so every _manifest after the first fails in the
\* construction of SetupGuard, before PIPELINE is assigned: PIPELINE is
\* assigned at most once.  PipelineGuard::new has no such restriction: every
\* _call after the first keeps succeeding.
C29_SecondManifestFailsBeforeAssignment ==
    /\ Cardinality({i \in DOMAIN rtTrace : rtTrace[i].assigned}) <= 1
    /\ (logger # Nothing) <=> (\E i \in DOMAIN rtTrace : rtTrace[i].fn = "_manifest")
    /\ \A i \in DOMAIN rtTrace :
          LET e == rtTrace[i]
              earlier == \E j \in 1..(i - 1) : rtTrace[j].fn = "_manifest"
          IN  /\ (e.fn = "_manifest" /\ earlier)
                    => /\ e.returned = Nothing
                       /\ e.panic = "SetLoggerError"
                       /\ ~e.assigned
                       /\ e.after = e.before
              /\ (e.fn = "_manifest" /\ ~earlier) => e.assigned
              /\ (e.fn = "_call" /\ e.before # Nothing)
                    => e.returned = Some(0) /\ e.panic = ""

C29_Witness ==
    /\ Len(rtTrace) = 3
    /\ rtTrace[1].fn = "_manifest" /\ rtTrace[1].returned = Some(1)
    /\ rtTrace[2].fn = "_manifest" /\ rtTrace[2].returned = Nothing
    /\ rtTrace[3].fn = "_call" /\ rtTrace[3].returned = Some(0)

(***************************************************************************)
(* The specifications: one per part of the program, the other parts idle.  *)
(***************************************************************************)
BuildIdle ==
    /\ pc = "idle"
    /\ parseOk = FALSE
    /\ world = {}
    /\ res = Resources_default
    /\ db = Database_default
    /\ trace = <<>>
    /\ halted = None
    /\ ret = Nothing

PathIdle ==
    /\ pathStep = "idle"
    /\ pathInput = <<>>
    /\ pathParsed = Nothing
    /\ pathText = Nothing
    /\ pathAgain = Nothing

DocIdle ==
    /\ docStep = "idle"
    /\ docYaml = [image |-> Nothing, pipeline |-> Nothing, version |-> FALSE]
    /\ docParsed = Nothing
    /\ docText = Nothing
    /\ docAgain = Nothing

DepIdle ==
    /\ depStep = "idle"
    /\ CORE_VERSION = <<>>
    /\ PROC_BLOCK_VERSION = <<>>
    /\ current_dir = <<>>
    /\ depPath = Path_new(<<>>, Nothing, Nothing)
    /\ depResult = Nothing

GenIdle ==
    /\ proc_blocks = <<>>
    /\ ctx_name = <<>>
    /\ optimized = FALSE
    /\ rune_repo_dir = Nothing
    /\ cargoToml = Nothing
    /\ cargoConfig = Nothing

CycleIdle ==
    /\ cyStep = "idle"
    /\ cyInputs = <<>>
    /\ cyDiags = <<>>

AnalyseIdle ==
    /\ anStep = "idle"
    /\ anPanic = Nothing
    /\ anPipeline = <<>>
    /\ anOrder = <<>>
    /\ anCtx = <<>>

RuntimeIdle ==
    /\ PIPELINE = Nothing
    /\ logger = Nothing
    /\ rtTrace = <<>>

AudioIdle ==
    /\ afStep = "idle"
    /\ afInput = <<>>
    /\ afOutput = Nothing

\* build_with_hooks(ctx, features, hooks)
Init ==
    /\ pc = "entry"
    /\ parseOk \in BOOLEAN
    /\ world = {}
    /\ res = Resources_default
    /\ db = Database_default
    /\ trace = <<>>
    /\ halted = None
    /\ ret = Nothing
    /\ PathIdle /\ DocIdle /\ DepIdle /\ GenIdle /\ CycleIdle
    /\ AnalyseIdle /\ RuntimeIdle /\ AudioIdle

Next ==
    \/ Setup
    \/ before_parse
    \/ ParsePhase
    \/ after_parse
    \/ LoweringPhase
    \/ after_lowering
    \/ TypeCheckPhase
    \/ after_type_checking
    \/ CodegenPhase
    \/ after_codegen
    \/ CompilePhase
    \/ after_compile
    \/ Return

Spec == Init /\ [][Next]_vars

\* Path::from_str and Display on every string of at most MaxPathLen characters
PathInit ==
    /\ pathStep = "input"
    /\ pathInput \in SeqsUpTo(PathChars, MaxPathLen)
    /\ pathParsed = Nothing
    /\ pathText = Nothing
    /\ pathAgain = Nothing
    /\ BuildIdle /\ DocIdle /\ DepIdle /\ GenIdle /\ CycleIdle
    /\ AnalyseIdle /\ RuntimeIdle /\ AudioIdle

PathNext ==
    \/ PathFromStr
    \/ PathToString
    \/ PathReparse

PathSpec == PathInit /\ [][PathNext]_vars

\* Document::parse, serde_yaml::to_string and Document::parse again
DocInit ==
    /\ docStep = "input"
    /\ docYaml \in YamlDocuments
    /\ docParsed = Nothing
    /\ docText = Nothing
    /\ docAgain = Nothing
    /\ BuildIdle /\ PathIdle /\ DepIdle /\ GenIdle /\ CycleIdle
    /\ AnalyseIdle /\ RuntimeIdle /\ AudioIdle

DocNext ==
    \/ DocParse
    \/ DocSerialize
    \/ DocReparse

DocSpec == DocInit /\ [][DocNext]_vars

\* proc_block_dependency on every path of DepPaths
DepInit ==
    /\ depStep = "input"
    /\ CORE_VERSION \in CrateVersions
    /\ PROC_BLOCK_VERSION \in CrateVersions
    /\ current_dir \in CurrentDirs
    /\ depPath \in DepPaths
    /\ depResult = Nothing
    /\ BuildIdle /\ PathIdle /\ DocIdle /\ GenIdle /\ CycleIdle
    /\ AnalyseIdle /\ RuntimeIdle /\ AudioIdle

DepNext ==
    \/ ResolveDependency

DepSpec == DepInit /\ [][DepNext]_vars

\* The codegen emitters on every list of at most MaxProcBlocks proc blocks
GenInit ==
    /\ proc_blocks \in SeqsUpTo(ManifestPaths, MaxProcBlocks)
    /\ ctx_name \in BuildNames
    /\ optimized \in BOOLEAN
    /\ rune_repo_dir \in RepoDirs
    /\ cargoToml = Nothing
    /\ cargoConfig = Nothing
    /\ depStep = "idle"
    /\ CORE_VERSION \in CrateVersions
    /\ PROC_BLOCK_VERSION \in CrateVersions
    /\ current_dir \in CurrentDirs
    /\ depPath = Path_new(<<>>, Nothing, Nothing)
    /\ depResult = Nothing
    /\ BuildIdle /\ PathIdle /\ DocIdle /\ CycleIdle
    /\ AnalyseIdle /\ RuntimeIdle /\ AudioIdle

GenNext ==
    \/ generate_cargo_toml_run
    \/ generate_cargo_config_run

GenSpec == GenInit /\ [][GenNext]_vars

\* The cycle check on every pipeline of NumCycleStages stages
CycleInit ==
    /\ cyStep = "input"
    /\ cyInputs \in CyclePipelines
    /\ cyDiags = <<>>
    /\ BuildIdle /\ PathIdle /\ DocIdle /\ DepIdle /\ GenIdle
    /\ AnalyseIdle /\ RuntimeIdle /\ AudioIdle

CycleNext ==
    \/ check_for_loops

CycleSpec == CycleInit /\ [][CycleNext]_vars

\* analyse on every pipeline of AnPipelines and every iteration order
AnalyseInit ==
    /\ anStep = "input"
    /\ anPanic = Nothing
    /\ anPipeline \in AnPipelines
    /\ anOrder \in Orders(DOMAIN anPipeline)
    /\ anCtx = Context_default
    /\ BuildIdle /\ PathIdle /\ DocIdle /\ DepIdle /\ GenIdle /\ CycleIdle
    /\ RuntimeIdle /\ AudioIdle

AnalyseNext ==
    \/ RegisterNames
    \/ RegisterStages
    \/ ConstructPipeline

AnalyseSpec == AnalyseInit /\ [][AnalyseNext]_vars

\* AudioFloatConversion::transform on every input of at most MaxAudioLen
\* samples
AudioInit ==
    /\ afStep = "input"
    /\ afInput \in SeqsUpTo(I16Samples, MaxAudioLen)
    /\ afOutput = Nothing
    /\ BuildIdle /\ PathIdle /\ DocIdle /\ DepIdle /\ GenIdle /\ CycleIdle
    /\ AnalyseIdle /\ RuntimeIdle

AudioNext ==
    \/ AudioTransform

AudioSpec == AudioInit /\ [][AudioNext]_vars

\* The exports of an instantiated rune, called by the host in any order
RuntimeInit ==
    /\ PIPELINE = Nothing
    /\ logger = Nothing
    /\ rtTrace = <<>>
    /\ BuildIdle /\ PathIdle /\ DocIdle /\ DepIdle /\ GenIdle /\ CycleIdle
    /\ AnalyseIdle /\ AudioIdle

RuntimeNext ==
    \/ Call_manifest
    \/ Call_call

RuntimeSpec == RuntimeInit /\ [][RuntimeNext]_vars

====
